---------------------------- MODULE Spec2Model ----------------------------
(***************************************************************************)
(* A model of navdoon, a StatsD-compatible metrics aggregation server.     *)
(*                                                                         *)
(* Two specifications share the definitions of the stats shelf:            *)
(*   ShelfSpec  one thread adds metrics to a StatsShelf and takes          *)
(*              snapshots of it (navdoon/processor.py, StatsShelf and      *)
(*              QueueProcessor._get_metrics_and_clear_shelf);              *)
(*   Spec       the QueueProcessor: the processing loop, flush(), the      *)
(*              per-destination flush threads and the destinations.        *)
(*                                                                         *)
(* Numbers.  Python numbers are modelled as exact rationals <<n, d>> in    *)
(* lowest terms with d > 0, so that count / sample_rate, the mean and the  *)
(* median are computed by true division as the code does on floats; the    *)
(* rounding of binary floating point is not modelled.                      *)
(***************************************************************************)
EXTENDS Integers, Sequences, FiniteSets, TLC

(***************************************************************************)
(* Bounds of the model.                                                    *)
(***************************************************************************)
MaxAdds == 4        \* ShelfSpec: metrics added to the shelf in one run

(***************************************************************************)
(* Rational arithmetic.                                                    *)
(***************************************************************************)
Abs(n) == IF n < 0 THEN -n ELSE n

RECURSIVE Gcd(_, _)
Gcd(a, b) == IF b = 0 THEN a ELSE Gcd(b, a % b)

Norm(n, d) ==
    LET g == Gcd(Abs(n), Abs(d))
        s == IF d < 0 THEN -1 ELSE 1
    IN  <<(s * n) \div g, (s * d) \div g>>

Num(n) == <<n, 1>>

RAdd(x, y) == Norm(x[1] * y[2] + y[1] * x[2], x[2] * y[2])

RDiv(x, y) == Norm(x[1] * y[2], x[2] * y[1])

RLess(x, y) == x[1] * y[2] < y[1] * x[2]

RECURSIVE RSum(_)
RSum(s) == IF s = <<>> THEN Num(0) ELSE RAdd(Head(s), RSum(Tail(s)))

(***************************************************************************)
(* sorted(data): the list in ascending order (insertion sort; equal        *)
(* elements are indistinguishable, so stability needs no modelling).       *)
(***************************************************************************)
RECURSIVE Insert(_, _)
Insert(x, s) ==
    IF s = <<>> THEN <<x>>
    ELSE IF RLess(Head(s), x) THEN <<Head(s)>> \o Insert(x, Tail(s))
    ELSE <<x>> \o s

RECURSIVE Sorted(_)
Sorted(s) == IF s = <<>> THEN <<>> ELSE Insert(Head(s), Sorted(Tail(s)))

(***************************************************************************)
(* navdoon.utils.common.DataSeries.  A series is [count, data] with data   *)
(* sorted; Python's 0-based data[i] is data[i + 1] here.                   *)
(***************************************************************************)
DataSeries(data) == [count |-> Len(data), data |-> Sorted(data)]

series_count(series) == series.count

series_min(series) ==
    CHOOSE x \in {series.data[i] : i \in 1..series.count} :
        \A j \in 1..series.count : ~RLess(series.data[j], x)

series_max(series) ==
    CHOOSE x \in {series.data[i] : i \in 1..series.count} :
        \A j \in 1..series.count : ~RLess(x, series.data[j])

series_mean(series) == RDiv(RSum(series.data), Num(series.count))

series_median(series) ==
    LET count        == series.count
        last_index   == count - 1
        middle_index == count \div 2
    IN  IF count = 2 THEN series_mean(series)
        ELSE IF middle_index < last_index /\ count % 2 = 0
             THEN RDiv(RAdd(series.data[middle_index + 1],
                            series.data[middle_index + 2]), Num(2))
             ELSE series.data[middle_index + 1]


(***************************************************************************)
(* Metrics, as the statsdmetrics classes the shelf dispatches on.          *)
(***************************************************************************)
Counter(name, count, sample_rate) ==
    [kind |-> "Counter", name |-> name, count |-> count,
     sample_rate |-> sample_rate]

Gauge(name, value) == [kind |-> "Gauge", name |-> name, value |-> value]

GaugeDelta(name, delta) ==
    [kind |-> "GaugeDelta", name |-> name, delta |-> delta]

SetMetric(name, value) == [kind |-> "Set", name |-> name, value |-> value]

Timer(name, milliseconds) ==
    [kind |-> "Timer", name |-> name, milliseconds |-> milliseconds]

\* The metrics a run of ShelfSpec draws from: two names, every kind, a
\* sampled counter, positive and negative deltas, repeated set members.
ShelfInputs ==
    { Counter("a", Num(1), Num(1)), Counter("a", Num(3), <<1, 2>>),
      Counter("b", Num(-1), Num(1)),
      Gauge("a", Num(5)), GaugeDelta("a", Num(2)), GaugeDelta("a", Num(-1)),
      SetMetric("a", "x"), SetMetric("a", "y"), SetMetric("b", "x"),
      Timer("a", Num(1)), Timer("a", Num(4)), Timer("b", Num(2)) }

(***************************************************************************)
(* Dictionaries are functions whose domain is the set of keys present.     *)
(* Iteration visits the keys in the order of KeyOrder: Python leaves the   *)
(* order of dict iteration to the implementation, the model fixes one.     *)
(***************************************************************************)
EmptyDict == [n \in {} |-> 0]

DictSet(dict, key, value) ==
    [n \in DOMAIN dict \cup {key} |-> IF n = key THEN value ELSE dict[n]]

KeyOrder == <<"a", "b">>

Keys(dict) == SelectSeq(KeyOrder, LAMBDA n : n \in DOMAIN dict)

(***************************************************************************)
(* navdoon.processor.StatsShelf                                            *)
(***************************************************************************)
NewShelf ==
    [counters |-> EmptyDict, timers |-> EmptyDict,
     sets |-> EmptyDict, gauges |-> EmptyDict]

\* Mutant of add_counter: the sample rate is ignored.
add_counter_unsampled(shelf, counter) ==
    LET name     == counter.name
        counters == IF name \notin DOMAIN shelf.counters
                    THEN DictSet(shelf.counters, name, Num(0))
                    ELSE shelf.counters
    IN  [shelf EXCEPT !.counters =
            DictSet(counters, name, RAdd(counters[name], counter.count))]

add_counter(shelf, counter) ==
    LET name     == counter.name
        counters == IF name \notin DOMAIN shelf.counters
                    THEN DictSet(shelf.counters, name, Num(0))
                    ELSE shelf.counters
    IN  [shelf EXCEPT !.counters =
            DictSet(counters, name,
                    RAdd(counters[name],
                         RDiv(counter.count, counter.sample_rate)))]

\* Mutant of add_set: the set is replaced instead of extended.
add_set_replacing(shelf, metric) ==
    [shelf EXCEPT !.sets = DictSet(shelf.sets, metric.name, {metric.value})]

add_set(shelf, metric) ==
    LET members == IF metric.name \in DOMAIN shelf.sets
                   THEN shelf.sets[metric.name] ELSE {}
    IN  [shelf EXCEPT !.sets =
            DictSet(shelf.sets, metric.name, members \cup {metric.value})]

\* Mutant of add_gauge: an absolute value is added to the gauge.
add_gauge_accumulating(shelf, metric) ==
    LET old == IF metric.name \in DOMAIN shelf.gauges
               THEN shelf.gauges[metric.name] ELSE Num(0)
    IN  [shelf EXCEPT !.gauges =
            DictSet(shelf.gauges, metric.name, RAdd(old, metric.value))]

add_gauge(shelf, metric) ==
    [shelf EXCEPT !.gauges = DictSet(shelf.gauges, metric.name, metric.value)]

add_gauge_delta(shelf, metric) ==
    LET name == metric.name
    IN  IF name \notin DOMAIN shelf.gauges
        THEN [shelf EXCEPT !.gauges = DictSet(shelf.gauges, name, metric.delta)]
        ELSE [shelf EXCEPT !.gauges =
                 DictSet(shelf.gauges, name,
                         RAdd(shelf.gauges[name], metric.delta))]

add_timer(shelf, metric) ==
    LET values == IF metric.name \in DOMAIN shelf.timers
                  THEN shelf.timers[metric.name] ELSE <<>>
    IN  [shelf EXCEPT !.timers =
            DictSet(shelf.timers, metric.name,
                    Append(values, metric.milliseconds))]

\* StatsShelf.add: dispatch on the class of the metric (_metric_add_methods).
shelf_add(shelf, metric) ==
    CASE metric.kind = "Counter"    -> add_counter(shelf, metric)
      [] metric.kind = "Set"        -> add_set(shelf, metric)
      [] metric.kind = "Gauge"      -> add_gauge(shelf, metric)
      [] metric.kind = "GaugeDelta" -> add_gauge_delta(shelf, metric)
      [] metric.kind = "Timer"      -> add_timer(shelf, metric)

shelf_counters(shelf) == shelf.counters

shelf_gauges(shelf) == shelf.gauges

shelf_sets(shelf) == shelf.sets

\* Mutant of timer_stats: min and max are taken from the ends of the
\* unsorted list.
timer_stats_unsorted(values) ==
    LET series == DataSeries(values)
    IN  [count  |-> Num(series_count(series)),
         min    |-> values[1],
         max    |-> values[Len(values)],
         mean   |-> series_mean(series),
         median |-> series_median(series)]

timer_stats(values) ==
    LET series == DataSeries(values)
    IN  [count  |-> Num(series_count(series)),
         min    |-> series_min(series),
         max    |-> series_max(series),
         mean   |-> series_mean(series),
         median |-> series_median(series)]

shelf_timers(shelf) ==
    [name \in DOMAIN shelf.timers |-> timer_stats(shelf.timers[name])]

shelf_clear_keeping_counters(shelf) ==
    [shelf EXCEPT !.timers = EmptyDict, !.sets = EmptyDict,
                  !.gauges = EmptyDict]

shelf_clear(shelf) ==
    [shelf EXCEPT !.counters = EmptyDict, !.timers = EmptyDict,
                  !.sets = EmptyDict, !.gauges = EmptyDict]

(***************************************************************************)
(* QueueProcessor._get_metrics_and_clear_shelf, second half: the list of   *)
(* (name, value, timestamp) built from the four captured dictionaries.  A  *)
(* record's name is <<name>>, or <<name, statistic>> for the "name.stat"   *)
(* of a timer.                                                             *)
(***************************************************************************)
StatOrder == <<"count", "min", "max", "mean", "median">>

RECURSIVE Concat(_)
Concat(ss) == IF ss = <<>> THEN <<>> ELSE Head(ss) \o Concat(Tail(ss))

build_metrics(counters, gauges, sets, timers, timestamp) ==
    LET ck == Keys(counters)
        gk == Keys(gauges)
        sk == Keys(sets)
        tk == Keys(timers)
    IN  [i \in 1..Len(ck) |-> <<<<ck[i]>>, counters[ck[i]], timestamp>>]
        \o [i \in 1..Len(gk) |-> <<<<gk[i]>>, gauges[gk[i]], timestamp>>]
        \o [i \in 1..Len(sk) |->
               <<<<sk[i]>>, Num(Cardinality(sets[sk[i]])), timestamp>>]
        \o Concat([i \in 1..Len(tk) |->
               [j \in 1..Len(StatOrder) |->
                   <<<<tk[i], StatOrder[j]>>, timers[tk[i]][StatOrder[j]],
                     timestamp>>]])

\* The whole of _get_metrics_and_clear_shelf when no other thread touches
\* the shelf meanwhile: the batch it returns.
get_metrics(shelf, timestamp) ==
    build_metrics(shelf_counters(shelf), shelf_gauges(shelf),
                  shelf_sets(shelf), shelf_timers(shelf), timestamp)

(***************************************************************************)
(* State.                                                                  *)
(***************************************************************************)
VARIABLES
    shelf,      \* QueueProcessor._shelf: the four dictionaries
    added,      \* history: the metrics added since the shelf was last cleared
    calls,      \* history: the number of StatsShelf.add calls so far
    ret,        \* the last call on the shelf and what it returned
    destinations,  \* QueueProcessor._destinations
    queue,      \* QueueProcessor._queue: the ingress queue of requests
    enqueued,   \* history: the number of requests put on the ingress queue
    queue_id,   \* QueueProcessor._queue: which queue object it is
    now,        \* time()
    last_flush_timestamp,
    ev,         \* the Events of the processor, by name
    proc,       \* the thread running process(): position and locals, and
                \* (history) the samples on the shelf when it last returned
    flush_lock, \* QueueProcessor._flush_lock: the thread holding it
    fl,         \* the locals of the flush() call holding the flush lock
    ext,        \* a thread other than the processing thread calling flush() once
    flush_queues,  \* QueueProcessor._flush_queues: whose queue is listed
    fqueue,     \* the queues made by init_destinations (indexes into batches)
    worker,     \* the flush thread of each destination: position, item
    batches,    \* the lists of metrics built by flush(), in order, with the
                \* samples in each and the queues it was put on
    received,   \* per destination: the batches its flush() was called with
    errors,     \* the lines logged at error level
    tags,       \* history: the samples aggregated in each dictionary
    samples,    \* history: the number of samples added to the shelf
    server,     \* navdoon.server.Server: its events and attributes
    starter,    \* the thread running Server.start(): position and locals
    stopper,    \* the thread calling Server.shutdown(): position and locals
    collector,  \* the collectors: thread and events of each
    processor,  \* the queue processors as the server sees them: thread and
                \* events of each
    conn,       \* a TCP connection and the pool worker that reads it
    sock,       \* a SocketServer (UDP): its events, socket and thread
    pool,       \* a ThreadPool / ExpandableThreadPool and its threads
    addr,       \* the last call of get_addresses_with_unique_ports
    client      \* a TCPClient and the thread that sends with it

serverVars == <<server, starter, stopper, collector, processor>>

netVars == <<conn, sock, pool, addr, client>>

shelfVars == <<shelf, added, calls, ret>>

procVars ==
    <<destinations, queue, enqueued, queue_id, serverVars, netVars, now, last_flush_timestamp, ev, proc, flush_lock, fl,
      ext, flush_queues, fqueue, worker, batches, received, errors, tags,
      samples>>

vars == <<shelfVars, procVars>>

(***************************************************************************)
(* Requests.  A request is a sequence of lines; a line is <<ws, text>>:    *)
(* ws = 1 when blanks surround the text, and text is <<>> (nothing) or the *)
(* fields <<name, value, type>> or <<name, value, type, rate>> of          *)
(* name:value|type|@rate.  A value is <<sign, literal>>, literal and rate  *)
(* being strings.                                                          *)
(***************************************************************************)
strip(line) == line[2]

\* float(literal): the numbers the literals of the model stand for; any
\* other literal raises ValueError
Literals ==
    [lit \in {"0", "1", "2", "3", "0.5"} |->
        CASE lit = "0" -> Num(0) [] lit = "1" -> Num(1) [] lit = "2" -> Num(2)
          [] lit = "3" -> Num(3) [] lit = "0.5" -> <<1, 2>>]

IsNumber(literal) == literal \in DOMAIN Literals

Negated(x) == <<-x[1], x[2]>>

\* statsdmetrics.parse_metric_from_request: the metric of a stripped line,
\* or a ValueError ([ok |-> FALSE]).
parse_metric_from_request(text) ==
    LET name    == text[1]
        sign    == text[2][1]
        literal == text[2][2]
        type    == text[3]
        rated   == Len(text) = 4
        rate    == IF rated THEN Literals[text[4]] ELSE Num(1)
        value   == IF sign = "-" THEN Negated(Literals[literal])
                   ELSE Literals[literal]
        Fail    == [ok |-> FALSE]
        Ok(m)   == [ok |-> TRUE, metric |-> m]
    IN  IF name = "" THEN Fail
        ELSE IF rated /\ ~IsNumber(text[4]) THEN Fail
        ELSE IF type = "c"
             THEN IF IsNumber(literal) /\ RLess(Num(0), rate)
                                       /\ ~RLess(Num(1), rate)
                  THEN Ok(Counter(name, value, rate)) ELSE Fail
        ELSE IF rated THEN Fail
        ELSE IF type = "g"
             THEN IF ~IsNumber(literal) THEN Fail
                  ELSE IF sign = "" THEN Ok(Gauge(name, value))
                  ELSE Ok(GaugeDelta(name, value))
        ELSE IF type = "s" THEN Ok(SetMetric(name, text[2]))
        ELSE IF type = "ms"
             THEN IF IsNumber(literal) /\ sign # "-"
                  THEN Ok(Timer(name, value)) ELSE Fail
        ELSE Fail

LineCounter == <<0, <<"a", <<"", "1">>, "c">>>>          \* "a:1|c"
LineSetX    == <<1, <<"a", <<"", "x">>, "s">>>>          \* " a:x|s "
LineSetY    == <<0, <<"a", <<"", "y">>, "s">>>>          \* "a:y|s"
LineDelta   == <<0, <<"a", <<"+", "2">>, "g">>>>         \* "a:+2|g"
LineTimer   == <<0, <<"b", <<"", "3">>, "ms">>>>         \* "b:3|ms"
LineBadType == <<0, <<"a", <<"", "1">>, "zz">>>>         \* "a:1|zz"
LineEmpty   == <<0, <<>>>>                               \* ""
LineBlank   == <<1, <<>>>>                               \* "  "

\* The requests a collector may enqueue.
Requests ==
    { <<LineCounter, LineTimer, LineDelta>>,
      <<LineSetX, LineBlank, LineBadType, LineSetY>> }

EmptyRequest == <<LineEmpty>>

Destinations == {"d1", "d2"}

(***************************************************************************)
(* navdoon.processor.QueueProcessor                                        *)
(***************************************************************************)
MaxRequests == 1    \* requests put on the ingress queue in one run
MaxTime == 1        \* the clock runs from 0 to MaxTime

flush_interval == 1

MaxFlushTime == 3   \* FlushSpec: the clock runs from 0 to MaxFlushTime

NoFlush ==
    [pc |-> "none", now |-> 0, counters |-> EmptyDict, gauges |-> EmptyDict,
     sets |-> EmptyDict, timers |-> EmptyDict,
     ids |-> [counters |-> {}, gauges |-> {}, sets |-> EmptyDict,
              timers |-> {}]]

NoTags == [counters |-> {}, gauges |-> {}, sets |-> EmptyDict, timers |-> {}]

\* QueueProcessor.__init__, with the destinations set by set_destinations
ProcInit ==
    /\ queue = <<>>
    /\ enqueued = 0
    /\ queue_id = "q0"
    /\ now = 0
    /\ last_flush_timestamp = -1        \* None
    /\ ev = [should_stop_processing |-> FALSE, processing |-> FALSE,
             shutdown |-> FALSE, flush_threads_initialized |-> FALSE,
             should_stop_flushing |-> FALSE, processing_lock |-> "none",
             inside |-> {}, waiting |-> FALSE]
    /\ proc = [pc |-> "idle", has_data |-> FALSE, data |-> <<>>,
               lines |-> <<>>, parsed |-> 0, failed |-> 0, held |-> {},
               flushed_at |-> -1]
    /\ flush_lock = "none"
    /\ fl = NoFlush
    /\ ext = [pc |-> "idle"]
    /\ flush_queues = {}
    /\ fqueue = [d \in Destinations |-> <<>>]
    /\ worker = [d \in Destinations |-> [pc |-> "none", item |-> 0]]
    /\ batches = <<>>
    /\ received = [d \in Destinations |-> <<>>]
    /\ errors = <<>>
    /\ tags = NoTags
    /\ samples = 0

(***************************************************************************)
(* navdoon.server.Server: the supervisor.  Collectors and queue processors *)
(* are numbered; the server starts with processor 1 and the collectors     *)
(* <<1, 2>>, and the n-th reload configures processor n + 1 and the        *)
(* collector n + 2.  A collector and a processor appear here as the server *)
(* sees them: a thread and the events the server sets and waits for.       *)
(* _running_collectors is a reference to a list: server.lists holds the    *)
(* list objects and server.running_collectors is the index of the one the  *)
(* attribute refers to.                                                    *)
(***************************************************************************)
MaxReloads == 2

FirstCollectors == <<1, 2>>

Collectors == 1 .. (Len(FirstCollectors) + MaxReloads)

Processors == 1 .. (1 + MaxReloads)

NoProcessor == 0                         \* None

MaxTasks == 2

NetInit ==
    /\ conn = [pc |-> "idle", text |-> <<>>, rest |-> <<>>, got |-> <<>>,
               incomplete_line_chunk |-> <<>>, requests |-> <<>>,
               stop |-> FALSE, chunks |-> 0, flushed |-> FALSE]
    /\ sock = [pc |-> "idle", caller |-> "idle", socket |-> FALSE,
               stop_queuing_requests |-> FALSE, should_shutdown |-> FALSE,
               queuing_requests |-> FALSE, shutdown |-> FALSE,
               requests |-> <<>>]
    /\ pool = [pc |-> "idle", cls |-> "ThreadPool", size |-> 0,
               workers_limit |-> 0, stop_event |-> FALSE, queue |-> <<>>,
               unfinished_tasks |-> 0, task_counter |-> 0, queue_lock |-> 0,
               task_results |-> [id \in 0 .. MaxTasks - 1 |-> "none"],
               threads |-> <<>>,
               max_workers_count |-> 0,
               callers |-> [c \in {1, 2} |->
                              [pc |-> "idle", task_id |-> 0, arg |-> "none"]],
               returned |-> <<>>, executed |-> [id \in 0 .. MaxTasks - 1 |-> 0],
               waiter |-> [pc |-> "idle", ids |-> {}]]
    /\ client = [pc |-> "idle", max_retry |-> 1, connection_tries |-> 0,
                 sock |-> FALSE, sends |-> 0, attempts |-> 0]
    /\ addr = [pc |-> "idle", addresses |-> <<>>,
               result |-> [raised |-> "", value |-> <<>>]]

ServerInit ==
    /\ NetInit
    /\ server = [running |-> FALSE, shutdown |-> FALSE, reload |-> FALSE,
                 pause |-> FALSE, should_reload |-> FALSE,
                 lists |-> << <<>> >>, running_collectors |-> 1,
                 running_queue_processor |-> NoProcessor,
                 collectors |-> FirstCollectors, queue_processor |-> 1,
                 queue_none |-> FALSE, reloads |-> 0]
    /\ starter = [pc |-> "idle", reloading |-> FALSE, list |-> <<>>, i |-> 1,
                  running |-> 1, cur |-> 1, stopped |-> <<>>,
                  queue_thread |-> NoProcessor, threads |-> {}]
    /\ stopper = [pc |-> "idle", i |-> 1, running |-> 1, cur |-> 1,
                  stopped |-> <<>>, clock |-> 0, start_time |-> 0,
                  wait |-> 0, timeout |-> 0, budget |-> 0]
    /\ collector = [c \in Collectors |->
                      [thread |-> "none", queuing |-> FALSE, stop |-> FALSE,
                       shutdown |-> FALSE, signalled |-> FALSE]]
    /\ processor = [p \in Processors |->
                      [thread |-> "none", processing |-> FALSE,
                       should_stop |-> FALSE, shutdown |-> FALSE,
                       signalled |-> FALSE]]

\* The state after construction and set_destinations(dests).
Configured(dests) ==
    /\ shelf = NewShelf
    /\ added = <<>>
    /\ calls = 0
    /\ ret = [call |-> "none", metrics |-> <<>>, timestamp |-> 0, of |-> <<>>]
    /\ destinations = dests
    /\ ProcInit
    /\ ServerInit

Init == Configured({"d1"})

\* init_destinations: queue_ = Queue() inside the loop over the destinations,
\* so the thread of each destination polls a queue of its own.  Queues are
\* named after destinations.
queue_of_shared(d) == "d1"

queue_of(d) == d

\* time(): a reading of the clock, not before the last one.  The clock of
\* a processor without destinations, whose flushes go to no queue, runs on
\* to MaxFlushTime.
Times == now .. (IF destinations = {} THEN MaxFlushTime ELSE MaxTime)

\* a collector: queue.put_nowait(request)
Enqueue(request) ==
    /\ enqueued < MaxRequests
    /\ queue' = Append(queue, request)
    /\ enqueued' = enqueued + 1
    /\ UNCHANGED <<shelfVars, queue_id, serverVars, netVars, destinations, now, last_flush_timestamp, ev, proc,
                   flush_lock, fl, ext, flush_queues, fqueue, worker, batches, received,
                   errors, tags, samples>>

processing_lock_free_always(e) == TRUE

\* with self._processing_lock: the lock can be taken.  ev.processing_lock is
\* the thread that holds it, ev.inside (history) are the threads inside the
\* block, and ev.waiting tells that the other thread waits for the lock.
processing_lock_free(e) == e.processing_lock = "none"

\* process() by thread t, up to the loop: take the lock, note the time,
\* start one flush thread with its own queue per destination
\* (init_destinations), signal processing.  proc holds the locals of the
\* thread inside the block.
process_enter(t) ==
    /\ processing_lock_free(ev)
    /\ IF last_flush_timestamp = -1
       THEN \E time \in Times : now' = time /\ last_flush_timestamp' = time
       ELSE UNCHANGED <<now, last_flush_timestamp>>
    /\ IF ~ev.flush_threads_initialized
       THEN /\ worker' = [d \in Destinations |->
                            IF d \in destinations
                            THEN [pc |-> "check", item |-> 0] ELSE worker[d]]
            /\ fqueue' = [d \in Destinations |-> <<>>]
            /\ flush_queues' = {queue_of(d) : d \in destinations}
       ELSE UNCHANGED <<worker, fqueue, flush_queues>>
    /\ ev' = [ev EXCEPT !.flush_threads_initialized = TRUE,
                        !.should_stop_flushing =
                            IF ev.flush_threads_initialized THEN @ ELSE FALSE,
                        !.shutdown = FALSE, !.processing = TRUE,
                        !.processing_lock = t, !.inside = @ \cup {t},
                        !.waiting = IF t = "other" THEN FALSE ELSE @]
    /\ proc' = [proc EXCEPT !.pc = "loop"]
    /\ UNCHANGED <<destinations, enqueued, queue_id, serverVars, netVars, flush_lock, fl, ext, batches,
                   received, errors, samples>>

\* process() by the thread the processor was started in
process_prologue == process_enter("proc")

\* process() called on a processor just constructed
ProcStart ==
    /\ proc.pc = "idle"
    /\ process_prologue
    /\ UNCHANGED <<shelfVars, queue, tags>>

\* process() called again after it returned, as on a reload: a processor
\* made anew, with an empty shelf
ProcRestart_fresh ==
    /\ proc.pc = "stopped"
    /\ process_prologue
    /\ shelf' = NewShelf
    /\ tags' = NoTags
    /\ UNCHANGED <<added, calls, ret, queue>>

\* process() called again on the same processor after it returned, as on a
\* reload; a flush thread that outlasted the join is left to itself
ProcRestart ==
    /\ proc.pc = "stopped"
    /\ process_prologue
    /\ UNCHANGED <<shelfVars, queue, tags>>

\* while True: if should_stop(): break
ProcLoop ==
    /\ proc.pc = "loop"
    /\ proc' = [proc EXCEPT
                  !.pc = IF ev.should_stop_processing THEN "finally" ELSE "get"]
    /\ UNCHANGED <<shelfVars, destinations, queue, enqueued, queue_id, serverVars, netVars, now, last_flush_timestamp, ev,
                   flush_lock, fl, ext, flush_queues, fqueue, worker,
                   batches, received, errors, tags, samples>>

\* data = queue_get(timeout=1), or Empty when the wait times out
ProcGet ==
    /\ proc.pc = "get"
    /\ IF queue # <<>>
       THEN /\ proc' = [proc EXCEPT !.pc = "check", !.has_data = TRUE,
                                    !.data = Head(queue)]
            /\ queue' = Tail(queue)
       ELSE /\ proc' = [proc EXCEPT !.pc = "check", !.has_data = FALSE,
                                    !.data = <<>>]
            /\ UNCHANGED queue
    /\ UNCHANGED <<shelfVars, destinations, enqueued, queue_id, serverVars, netVars, now, last_flush_timestamp, ev,
                   flush_lock, fl, ext, flush_queues, fqueue, worker,
                   batches, received, errors, tags, samples>>

\* stop_process_token = None: no request is the empty sequence
StopToken == <<>>

\* the stop token was put on the ingress queue
TokenSent ==
    \/ \E i \in DOMAIN queue : queue[i] = StopToken
    \/ proc.has_data /\ proc.data = StopToken

\* queue.put(stop_process_token), once
EnqueueToken ==
    /\ ~TokenSent
    /\ queue' = Append(queue, StopToken)
    /\ UNCHANGED <<shelfVars, destinations, enqueued, queue_id, serverVars, netVars, now,
                   last_flush_timestamp, ev, proc, flush_lock, fl, ext,
                   flush_queues, fqueue, worker, batches, received, errors,
                   tags, samples>>

\* a collector: queue.put_nowait(request) once more, after the stop token
EnqueueLate(request) ==
    /\ TokenSent
    /\ enqueued < MaxRequests + 1
    /\ queue' = Append(queue, request)
    /\ enqueued' = enqueued + 1
    /\ UNCHANGED <<shelfVars, queue_id, serverVars, netVars, destinations, now,
                   last_flush_timestamp, ev, proc, flush_lock, fl, ext, flush_queues, fqueue, worker,
                   batches, received, errors, tags, samples>>

\* lines = [line.strip() for line in request.split("\n") if line.strip()]
request_lines(request) ==
    LET kept == SelectSeq(request, LAMBDA line : strip(line) # <<>>)
    IN  [i \in 1..Len(kept) |-> strip(kept[i])]

\* The rest of an iteration of the loop of process() after the flush check:
\* break on the stop token, else process(data) when there is data.
Handle_without_token(p) ==
    IF ~p.has_data THEN [p EXCEPT !.pc = "loop"]
    ELSE IF p.data \in {StopToken, EmptyRequest} THEN [p EXCEPT !.pc = "loop"]
    ELSE [p EXCEPT !.pc = IF request_lines(p.data) = <<>> THEN "loop"
                          ELSE "lines",
                   !.lines = request_lines(p.data), !.parsed = 0,
                   !.failed = 0]

Handle(p) ==
    IF ~p.has_data THEN [p EXCEPT !.pc = "loop"]
    ELSE IF p.data = StopToken THEN [p EXCEPT !.pc = "finally"]
    ELSE IF p.data = EmptyRequest THEN [p EXCEPT !.pc = "loop"]
    ELSE [p EXCEPT !.pc = IF request_lines(p.data) = <<>> THEN "loop"
                          ELSE "lines",
                   !.lines = request_lines(p.data), !.parsed = 0,
                   !.failed = 0]

flush_due_always(time, last) == TRUE

\* float(time() - self._last_flush_timestamp) >= flush_interval
flush_due(time, last) == time - last >= flush_interval

\* if float(time() - self._last_flush_timestamp) >= flush_interval: flush()
ProcCheck ==
    /\ proc.pc = "check"
    /\ \E time \in Times :
          /\ now' = time
          /\ proc' = IF flush_due(time, last_flush_timestamp)
                     THEN [proc EXCEPT !.pc = "flush"]
                     ELSE Handle(proc)
    /\ UNCHANGED <<shelfVars, destinations, queue, enqueued, queue_id, serverVars, netVars, last_flush_timestamp, ev,
                   flush_lock, fl, ext, flush_queues, fqueue, worker,
                   batches, received, errors, tags, samples>>

\* history: the samples aggregated in each dictionary after an add
Tagged(t, metric, id) ==
    CASE metric.kind = "Counter" -> [t EXCEPT !.counters = @ \cup {id}]
      [] metric.kind \in {"Gauge", "GaugeDelta"} ->
            [t EXCEPT !.gauges = @ \cup {id}]
      [] metric.kind = "Timer" -> [t EXCEPT !.timers = @ \cup {id}]
      [] metric.kind = "Set" ->
            [t EXCEPT !.sets =
                DictSet(t.sets, metric.name,
                        (IF metric.name \in DOMAIN t.sets
                         THEN t.sets[metric.name] ELSE {}) \cup {id})]

\* shelf.sets() copies the dictionary, not the sets in it: until clear()
\* replaces the dictionary, a set the copy holds is the set the shelf holds.
SharesSet(metric) ==
    /\ metric.kind = "Set"
    /\ flush_lock # "none"
    /\ fl.pc \in {"timers", "clear"}
    /\ metric.name \in DOMAIN fl.sets

\* The error branch of the loop of _process_request: log the line and go on
\* with the next one.
parse_failed_breaking(p, rest) ==
    [p EXCEPT !.lines = <<>>, !.failed = @ + 1, !.pc = "loop"]

parse_failed(p, rest) ==
    [p EXCEPT !.lines = rest, !.failed = @ + 1,
              !.pc = IF rest = <<>> THEN "loop" ELSE "lines"]

\* _process_request, one iteration of its loop over the lines
ProcLine ==
    /\ proc.pc = "lines"
    /\ IF ev.should_stop_processing
       THEN /\ proc' = [proc EXCEPT !.pc = "loop"]
            /\ UNCHANGED <<shelf, errors, tags, samples, fl>>
       ELSE LET line   == Head(proc.lines)
                rest   == Tail(proc.lines)
                result == parse_metric_from_request(line)
                id     == samples + 1
            IN  IF ~result.ok
                THEN /\ errors' = Append(errors, line)
                     /\ proc' = parse_failed(proc, rest)
                     /\ UNCHANGED <<shelf, tags, samples, fl>>
                ELSE /\ shelf' = shelf_add(shelf, result.metric)
                     /\ tags' = Tagged(tags, result.metric, id)
                     /\ samples' = samples + 1
                     /\ fl' = IF SharesSet(result.metric)
                              THEN [fl EXCEPT
                                      !.sets = add_set(fl, result.metric).sets,
                                      !.ids = Tagged(fl.ids, result.metric, id)]
                              ELSE fl
                     /\ proc' = [proc EXCEPT
                                   !.lines = rest, !.parsed = @ + 1,
                                   !.pc = IF rest = <<>> THEN "loop"
                                          ELSE "lines"]
                     /\ UNCHANGED errors
    /\ UNCHANGED <<added, calls, ret, destinations, queue, enqueued, queue_id, serverVars, netVars, now,
                   last_flush_timestamp, ev, flush_lock, ext, flush_queues,
                   fqueue, worker, batches, received>>

(***************************************************************************)
(* flush(), by the thread of process() ("proc") or by another thread       *)
(* ("ext").  The calls on the shelf made by _get_metrics_and_clear_shelf   *)
(* are separate steps: the shelf lock is not held across them.             *)
(***************************************************************************)
Flushers == {"proc", "ext"}

\* with self._flush_lock: now = time(); counters = shelf.counters()
FlushBegin(t) ==
    /\ flush_lock = "none"
    /\ t = "proc" => proc.pc = "flush"
    /\ t = "ext" => ext.pc = "idle"
    /\ flush_lock' = t
    /\ \E time \in Times :
          /\ now' = time
          /\ fl' = [NoFlush EXCEPT !.pc = "gauges", !.now = time,
                                   !.counters = shelf_counters(shelf),
                                   !.ids.counters = tags.counters]
    /\ ext' = IF t = "ext" THEN [ext EXCEPT !.pc = "flush"] ELSE ext
    /\ UNCHANGED <<shelfVars, destinations, queue, enqueued, queue_id, serverVars, netVars, last_flush_timestamp, ev,
                   proc, flush_queues, fqueue, worker, batches, received,
                   errors, tags, samples>>

\* gauges = shelf.gauges()
FlushGauges(t) ==
    /\ flush_lock = t /\ fl.pc = "gauges"
    /\ fl' = [fl EXCEPT !.pc = "sets", !.gauges = shelf_gauges(shelf),
                        !.ids.gauges = tags.gauges]
    /\ UNCHANGED <<shelfVars, destinations, queue, enqueued, queue_id, serverVars, netVars, now, last_flush_timestamp, ev,
                   proc, flush_lock, ext, flush_queues, fqueue, worker,
                   batches, received, errors, tags, samples>>

\* sets = shelf.sets()
FlushSets(t) ==
    /\ flush_lock = t /\ fl.pc = "sets"
    /\ fl' = [fl EXCEPT !.pc = "timers", !.sets = shelf_sets(shelf),
                        !.ids.sets = tags.sets]
    /\ UNCHANGED <<shelfVars, destinations, queue, enqueued, queue_id, serverVars, netVars, now, last_flush_timestamp, ev,
                   proc, flush_lock, ext, flush_queues, fqueue, worker,
                   batches, received, errors, tags, samples>>

\* timers = shelf.timers()
FlushTimers(t) ==
    /\ flush_lock = t /\ fl.pc = "timers"
    /\ fl' = [fl EXCEPT !.pc = "clear", !.timers = shelf_timers(shelf),
                        !.ids.timers = tags.timers]
    /\ UNCHANGED <<shelfVars, destinations, queue, enqueued, queue_id, serverVars, netVars, now, last_flush_timestamp, ev,
                   proc, flush_lock, ext, flush_queues, fqueue, worker,
                   batches, received, errors, tags, samples>>

\* history: the samples still aggregated once the shelf went from s to c
Kept(t, c) ==
    [counters |-> IF c.counters = EmptyDict THEN {} ELSE t.counters,
     gauges   |-> IF c.gauges = EmptyDict THEN {} ELSE t.gauges,
     sets     |-> [n \in DOMAIN c.sets |-> t.sets[n]],
     timers   |-> IF c.timers = EmptyDict THEN {} ELSE t.timers]

\* shelf.clear()
FlushClear(t) ==
    /\ flush_lock = t /\ fl.pc = "clear"
    /\ shelf' = shelf_clear(shelf)
    /\ tags' = Kept(tags, shelf_clear(shelf))
    /\ fl' = [fl EXCEPT !.pc = "put"]
    /\ UNCHANGED <<added, calls, ret, destinations, queue, enqueued, queue_id, serverVars, netVars, now,
                   last_flush_timestamp, ev, proc, flush_lock, ext,
                   flush_queues, fqueue, worker, batches, received, errors,
                   samples>>

\* queue_ = Queue(): a queue without a maximum size is never full
queue_full(q) == FALSE

\* queue_.put(item): a Queue is first in, first out
queue_put_first(q, item) == <<item>> \o q

queue_put(q, item) == Append(q, item)

AllIds(ids) ==
    ids.counters \cup ids.gauges \cup ids.timers
        \cup UNION {ids.sets[n] : n \in DOMAIN ids.sets}

\* the list of metrics is built and put on every listed queue; the lock is
\* released; in process() the iteration goes on with the data it popped.
\* proc.flushed_at is the timestamp of the last flush() called by the loop
\* of process() (history; -1: none yet).
FlushPut(t) ==
    /\ flush_lock = t /\ fl.pc = "put"
    /\ \A q \in flush_queues : ~queue_full(fqueue[q])
    /\ batches' = Append(batches,
          [metrics |-> build_metrics(fl.counters, fl.gauges, fl.sets,
                                     fl.timers, fl.now),
           ids |-> AllIds(fl.ids), to |-> flush_queues])
    /\ fqueue' = [q \in Destinations |->
                    IF q \in flush_queues
                    THEN queue_put(fqueue[q], Len(batches) + 1)
                    ELSE fqueue[q]]
    /\ last_flush_timestamp' = fl.now
    /\ flush_lock' = "none"
    /\ fl' = NoFlush
    /\ proc' = IF t = "proc"
                THEN [Handle(proc) EXCEPT !.flushed_at = fl.now] ELSE proc
    /\ ext' = IF t = "ext" THEN [ext EXCEPT !.pc = "done"] ELSE ext
    /\ UNCHANGED <<shelfVars, destinations, queue, enqueued, queue_id, serverVars, netVars, now, ev, flush_queues, worker,
                   received, errors, tags, samples>>

\* shutdown(), called by any thread
Shutdown ==
    /\ ~(ev.should_stop_processing /\ ev.should_stop_flushing)
    /\ ev' = [ev EXCEPT !.should_stop_processing = TRUE,
                        !.should_stop_flushing = TRUE]
    /\ UNCHANGED <<shelfVars, destinations, queue, enqueued, queue_id, serverVars, netVars, now, last_flush_timestamp,
                   proc, flush_lock, fl, ext, flush_queues, fqueue, worker,
                   batches, received, errors, tags, samples>>

\* process(), the finally block up to the joins
ProcFinally ==
    /\ proc.pc = "finally"
    /\ ev' = [ev EXCEPT !.should_stop_processing = FALSE,
                        !.processing = FALSE, !.should_stop_flushing = TRUE]
    /\ proc' = [proc EXCEPT !.pc = "join"]
    /\ UNCHANGED <<shelfVars, destinations, queue, enqueued, queue_id, serverVars, netVars, now, last_flush_timestamp,
                   flush_lock, fl, ext, flush_queues, fqueue, worker,
                   batches, received, errors, tags, samples>>

\* _clear_flush_threads and the rest of the finally block.  thread.join(5)
\* returns when the thread has ended, or after 5 seconds: a thread that
\* polls its queue ends within a second, one inside destination.flush()
\* may outlast the join.
ProcJoin ==
    /\ proc.pc = "join"
    /\ \A d \in Destinations : worker[d].pc \notin {"check", "get"}
    /\ flush_queues' = {}
    /\ ev' = [ev EXCEPT !.should_stop_flushing = FALSE,
                        !.flush_threads_initialized = FALSE,
                        !.shutdown = TRUE,
                        !.processing_lock = "none",
                        !.inside = @ \ {ev.processing_lock}]
    /\ proc' = [proc EXCEPT !.pc = "stopped", !.held = AllIds(tags)]
    /\ UNCHANGED <<shelfVars, destinations, queue, enqueued, queue_id, serverVars, netVars, now, last_flush_timestamp,
                   flush_lock, fl, ext, fqueue, worker, batches, received,
                   errors, tags, samples>>

(***************************************************************************)
(* _flush_metrics_queue_to_destination: the flush thread of a destination. *)
(***************************************************************************)
\* while not should_stop():
WorkerCheck(d) ==
    /\ worker[d].pc = "check"
    /\ worker' = [worker EXCEPT ![d].pc =
                     IF ev.should_stop_flushing THEN "exited" ELSE "get"]
    /\ UNCHANGED <<shelfVars, destinations, queue, enqueued, queue_id, serverVars, netVars, now, last_flush_timestamp, ev,
                   proc, flush_lock, fl, ext, flush_queues, fqueue, batches,
                   received, errors, tags, samples>>

\* flush(queue_get(timeout=1)): the call of destination.flush with the item
\* popped, or Empty when the wait times out
WorkerGet(d) ==
    /\ worker[d].pc = "get"
    /\ IF fqueue[queue_of(d)] # <<>>
       THEN /\ worker' = [worker EXCEPT ![d] =
                            [pc |-> "flush", item |-> Head(fqueue[queue_of(d)])]]
            /\ fqueue' = [fqueue EXCEPT ![queue_of(d)] = Tail(@)]
            /\ received' = [received EXCEPT ![d] =
                              Append(@, Head(fqueue[queue_of(d)]))]
       ELSE /\ worker' = [worker EXCEPT ![d].pc = "check"]
            /\ UNCHANGED <<fqueue, received>>
    /\ UNCHANGED <<shelfVars, destinations, queue, enqueued, queue_id, serverVars, netVars, now, last_flush_timestamp, ev,
                   proc, flush_lock, fl, ext, flush_queues, batches, errors,
                   tags, samples>>

\* What the flush thread does when destination.flush raises: only Empty is
\* caught, so the exception ends the thread.
after_sink_error(w) == [w EXCEPT !.pc = "died", !.item = 0]

\* destination.flush(metrics) returns
SinkReturn(d) ==
    /\ worker[d].pc = "flush"
    /\ worker' = [worker EXCEPT ![d] = [pc |-> "check", item |-> 0]]
    /\ UNCHANGED <<shelfVars, destinations, queue, enqueued, queue_id, serverVars, netVars, now, last_flush_timestamp, ev,
                   proc, flush_lock, fl, ext, flush_queues, fqueue, batches,
                   received, errors, tags, samples>>

\* destination.flush(metrics) raises (an IOError of a file or a socket)
SinkRaise(d) ==
    /\ worker[d].pc = "flush"
    /\ worker' = [worker EXCEPT ![d] = after_sink_error(@)]
    /\ UNCHANGED <<shelfVars, destinations, queue, enqueued, queue_id, serverVars, netVars, now, last_flush_timestamp, ev,
                   proc, flush_lock, fl, ext, flush_queues, fqueue, batches,
                   received, errors, tags, samples>>

\* Spec: a collector, the thread of process(), a thread calling flush(),
\* one destination whose flush() returns, and shutdown().
Next ==
    \/ \E request \in Requests : Enqueue(request)
    \/ ProcStart
    \/ ProcLoop
    \/ ProcGet
    \/ ProcCheck
    \/ ProcLine
    \/ \E t \in Flushers : FlushBegin(t)
    \/ \E t \in Flushers : FlushGauges(t)
    \/ \E t \in Flushers : FlushSets(t)
    \/ \E t \in Flushers : FlushTimers(t)
    \/ \E t \in Flushers : FlushClear(t)
    \/ \E t \in Flushers : FlushPut(t)
    \/ Shutdown
    \/ ProcFinally
    \/ ProcJoin
    \/ \E d \in Destinations : WorkerCheck(d)
    \/ \E d \in Destinations : WorkerGet(d)
    \/ \E d \in Destinations : SinkReturn(d)

Spec == Init /\ [][Next]_vars

(***************************************************************************)
(* FanSpec: two destinations.  The flush() of d1 may return, raise, or     *)
(* never return; the flush() of d2 returns.  Threads that can run do run:  *)
(* the thread of process(), a flush() once called, and the flush threads.  *)
(***************************************************************************)
Faulty == {"d1"}

FanInit == Configured({"d1", "d2"})

ProcStep ==
    \/ ProcStart
    \/ ProcLoop
    \/ ProcGet
    \/ ProcCheck
    \/ ProcLine
    \/ FlushBegin("proc")
    \/ FlushGauges("proc")
    \/ FlushSets("proc")
    \/ FlushTimers("proc")
    \/ FlushClear("proc")
    \/ FlushPut("proc")

ExtStep ==
    \/ FlushGauges("ext")
    \/ FlushSets("ext")
    \/ FlushTimers("ext")
    \/ FlushClear("ext")
    \/ FlushPut("ext")

WorkerStep(d) == WorkerCheck(d) \/ WorkerGet(d)

FanNext ==
    \/ \E request \in Requests : Enqueue(request)
    \/ ProcStep
    \/ FlushBegin("ext")
    \/ ExtStep
    \/ \E d \in Destinations : WorkerStep(d)
    \/ \E d \in Destinations : SinkReturn(d)
    \/ \E d \in Faulty : SinkRaise(d)

FanSpec ==
    /\ FanInit
    /\ [][FanNext]_vars
    /\ WF_vars(ProcStep)
    /\ WF_vars(ExtStep)
    /\ \A d \in Destinations : WF_vars(WorkerStep(d))
    /\ \A d \in Destinations \ Faulty : WF_vars(SinkReturn(d))

(***************************************************************************)
(* ReloadSpec: process() returns on shutdown() and is called again on the  *)
(* same processor; no other thread calls flush().                          *)
(***************************************************************************)
ReloadNext ==
    \/ \E request \in Requests : Enqueue(request)
    \/ ProcStep
    \/ Shutdown
    \/ ProcFinally
    \/ ProcJoin
    \/ ProcRestart
    \/ \E d \in Destinations : WorkerStep(d)
    \/ \E d \in Destinations : SinkReturn(d)

ReloadSpec == Init /\ [][ReloadNext]_vars

(***************************************************************************)
(* FlushSpec: a processor without destinations (as the server creates when *)
(* none is configured) over a longer time, so that its loop flushes more   *)
(* than once; another thread calls flush() once.  The thread of process()  *)
(* and a flush() once called keep running.                                 *)
(***************************************************************************)
FlushInit == Configured({})

FlushNext ==
    \/ \E request \in Requests : Enqueue(request)
    \/ ProcStep
    \/ FlushBegin("ext")
    \/ ExtStep

FlushSpec ==
    /\ FlushInit
    /\ [][FlushNext]_vars
    /\ WF_vars(ProcStep)
    /\ WF_vars(ExtStep)

(***************************************************************************)
(* LockSpec: a second thread ("other") calls process() on the same         *)
(* processor, at any time and again after it has returned.                 *)
(***************************************************************************)
\* process() is called by the other thread, which waits for the lock ...
OtherProcessCall ==
    /\ ~ev.waiting
    /\ "other" \notin ev.inside
    /\ ev' = [ev EXCEPT !.waiting = TRUE]
    /\ UNCHANGED <<shelfVars, destinations, queue, enqueued, queue_id, serverVars, netVars, now, last_flush_timestamp,
                   proc, flush_lock, fl, ext, flush_queues, fqueue, worker,
                   batches, received, errors, tags, samples>>

\* ... and goes on when it has the lock
OtherProcess ==
    /\ ev.waiting
    /\ process_enter("other")
    /\ UNCHANGED <<shelfVars, queue, tags>>

LockNext ==
    \/ ReloadNext
    \/ OtherProcessCall
    \/ OtherProcess

LockSpec == Init /\ [][LockNext]_vars

(***************************************************************************)
(* TokenSpec: the stop token is put on the ingress queue, before or after  *)
(* the requests.  The threads that can run do run.                         *)
(***************************************************************************)
ProcStop == ProcFinally \/ ProcJoin

TokenNext ==
    \/ \E request \in Requests : Enqueue(request)
    \/ EnqueueToken
    \/ \E request \in Requests : EnqueueLate(request)
    \/ ProcStep
    \/ ProcStop
    \/ \E d \in Destinations : WorkerStep(d)
    \/ \E d \in Destinations : SinkReturn(d)

TokenSpec ==
    /\ Init
    /\ [][TokenNext]_vars
    /\ WF_vars(ProcStep)
    /\ WF_vars(ProcStop)
    /\ \A d \in Destinations : WF_vars(WorkerStep(d))
    /\ \A d \in Destinations : WF_vars(SinkReturn(d))

(***************************************************************************)
(* DestSpec: set_destinations is called while process() runs with d1.      *)
(***************************************************************************)
\* set_destinations(destinations): the list is validated (every destination
\* of the model has a flush method) and stored; nothing else is touched
SetDestinations(dests) ==
    /\ destinations # dests
    /\ destinations' = dests
    /\ UNCHANGED <<shelfVars, queue, enqueued, queue_id, serverVars, netVars, now, last_flush_timestamp, ev,
                   proc, flush_lock, fl, ext, flush_queues, fqueue, worker,
                   batches, received, errors, tags, samples>>

NewDestinations == {{"d2"}, {"d1", "d2"}}

DestNext ==
    \/ \E request \in Requests : Enqueue(request)
    \/ ProcStep
    \/ \E dests \in NewDestinations : SetDestinations(dests)
    \/ \E d \in Destinations : WorkerStep(d)
    \/ \E d \in Destinations : SinkReturn(d)

DestSpec == Init /\ [][DestNext]_vars

(***************************************************************************)
(* ShelfSpec: one thread uses the shelf.                                   *)
(***************************************************************************)
NoCall == [call |-> "none", metrics |-> <<>>, timestamp |-> 0, of |-> <<>>]

ShelfInit ==
    /\ shelf = NewShelf
    /\ added = <<>>
    /\ calls = 0
    /\ ret = NoCall
    /\ destinations = {}
    /\ ProcInit
    /\ ServerInit

\* shelf.add(metric)
ShelfAdd(metric) ==
    /\ calls < MaxAdds
    /\ shelf' = shelf_add(shelf, metric)
    /\ added' = Append(added, metric)
    /\ calls' = calls + 1
    /\ ret' = [NoCall EXCEPT !.call = "add"]

\* metrics = _get_metrics_and_clear_shelf(timestamp)
ShelfFlush(timestamp) ==
    /\ ret.call # "flush"
    /\ shelf' = shelf_clear(shelf)
    /\ ret' = [call |-> "flush", metrics |-> get_metrics(shelf, timestamp),
               timestamp |-> timestamp, of |-> added]
    /\ added' = <<>>
    /\ UNCHANGED calls

Timestamps == {1, 2}

ShelfNext ==
    \/ \E metric \in ShelfInputs : ShelfAdd(metric) /\ UNCHANGED procVars
    \/ \E timestamp \in Timestamps :
          ShelfFlush(timestamp) /\ UNCHANGED procVars

ShelfSpec == ShelfInit /\ [][ShelfNext]_vars


(***************************************************************************)
(* QueueSpec: the queue of the processor is assigned while process() runs, *)
(* is stopped by shutdown() and is called again.                           *)
(***************************************************************************)
MaxQueueSets == 2   \* assignments to QueueProcessor.queue in one run

\* objects with a callable get, and some without
ValidQueues == {"q0", "q1"}

QueueValues == ValidQueues \cup {"not a queue"}

\* the setter of QueueProcessor.queue: the exception raised, if any, and
\* the queue of the processor afterwards
set_queue_unguarded(processing, current, value) ==
    IF value \notin ValidQueues
    THEN [raised |-> "ValueError", queue |-> current]
    ELSE [raised |-> "none", queue |-> value]

set_queue(processing, current, value) ==
    IF value \notin ValidQueues
    THEN [raised |-> "ValueError", queue |-> current]
    ELSE IF processing THEN [raised |-> "Exception", queue |-> current]
    ELSE [raised |-> "none", queue |-> value]

\* processor.queue = value, the queues being empty ones; ret keeps the
\* outcomes of the assignments made so far
SetQueue(value) ==
    /\ queue = <<>>
    /\ Len(ret.of) < MaxQueueSets
    /\ LET result == set_queue(ev.processing, queue_id, value)
       IN  /\ queue_id' = result.queue
           /\ ret' = [NoCall EXCEPT
                        !.call = "set_queue",
                        !.of = Append(ret.of, <<result.raised, value>>)]
    /\ UNCHANGED <<shelf, added, calls, serverVars, netVars, destinations, queue,
                   enqueued, now, last_flush_timestamp, ev, proc, flush_lock,
                   fl, ext,
                   flush_queues, fqueue, worker, batches, received, errors,
                   tags, samples>>

QueueNext ==
    \/ \E request \in Requests : Enqueue(request)
    \/ ProcStep
    \/ Shutdown
    \/ ProcStop
    \/ ProcRestart
    \/ \E value \in QueueValues : SetQueue(value)
    \/ \E d \in Destinations : WorkerStep(d)
    \/ \E d \in Destinations : SinkReturn(d)

QueueSpec == Init /\ [][QueueNext]_vars

(***************************************************************************)
(* The threads of the collectors, of the processors, of Server.start() and *)
(* of Server.shutdown().                                                   *)
(***************************************************************************)
coreVars ==
    <<shelfVars, destinations, queue, enqueued, queue_id, netVars, now,
      last_flush_timestamp, ev, proc, flush_lock, fl, ext, flush_queues,
      fqueue, worker, batches, received, errors, tags, samples>>

appVars ==
    <<shelfVars, destinations, queue, enqueued, queue_id, now,
      last_flush_timestamp, ev, proc, flush_lock, fl, ext, flush_queues,
      fqueue, worker, batches, received, errors, tags, samples, serverVars>>

\* The thread of a collector (SocketServer.start): it queues requests
\* unless it was already told to shut down.
CollectorRun(c) ==
    /\ collector[c].thread = "started"
    /\ ~collector[c].queuing
    /\ collector' =
         [collector EXCEPT ![c] =
            IF collector[c].stop
            THEN [@ EXCEPT !.shutdown = TRUE, !.thread = "ended"]
            ELSE [@ EXCEPT !.shutdown = FALSE, !.queuing = TRUE,
                           !.signalled = TRUE]]
    /\ UNCHANGED <<coreVars, server, starter, stopper, processor>>

\* The thread of a collector whose socket cannot be bound: _bind_socket()
\* raises before the try block of SocketServer.start, and the thread ends
\* with no event set.
CollectorBindFails(c) ==
    /\ collector[c].thread = "started"
    /\ ~collector[c].queuing
    /\ collector' = [collector EXCEPT ![c].thread = "bind_error"]
    /\ UNCHANGED <<coreVars, server, starter, stopper, processor>>

\* A collector told to stop leaves its loop and signals its shutdown.
CollectorStop(c) ==
    /\ collector[c].thread = "started"
    /\ collector[c].queuing
    /\ collector[c].stop
    /\ collector' = [collector EXCEPT ![c].queuing = FALSE,
                                      ![c].shutdown = TRUE,
                                      ![c].thread = "ended"]
    /\ UNCHANGED <<coreVars, server, starter, stopper, processor>>

\* The thread of a queue processor (QueueProcessor.process) up to the
\* signal that it is processing.
ProcessorRun(p) ==
    /\ processor[p].thread = "started"
    /\ ~processor[p].processing
    /\ processor' = [processor EXCEPT ![p].shutdown = FALSE,
                                      ![p].processing = TRUE,
                                      ![p].signalled = TRUE]
    /\ UNCHANGED <<coreVars, server, starter, stopper, collector>>

\* A processor told to stop leaves its loop, and its thread ends.
ProcessorStop(p) ==
    /\ processor[p].thread = "started"
    /\ processor[p].processing
    /\ processor[p].should_stop
    /\ processor' = [processor EXCEPT ![p].should_stop = FALSE,
                                      ![p].processing = FALSE,
                                      ![p].shutdown = TRUE,
                                      ![p].thread = "ended"]
    /\ UNCHANGED <<coreVars, server, starter, stopper, collector>>

\* A collector that queues requests puts one it received on the queue.
CollectorQueues(c) ==
    /\ collector[c].thread = "started"
    /\ collector[c].queuing
    /\ \E request \in Requests \cup {EmptyRequest} : Enqueue(request)

wait_until_queuing_requests_stub(c) == TRUE

wait_until_queuing_requests(c) == collector[c].queuing

\* list.remove of each stopped collector: it raises ValueError when one of
\* them is not in the list, and leaves the others otherwise.
can_remove(list, stopped) ==
    \A n \in 1 .. Len(stopped) : \E k \in 1 .. Len(list) : list[k] = stopped[n]

remove_stopped(list, stopped) ==
    SelectSeq(list, LAMBDA x : \A n \in 1 .. Len(stopped) : stopped[n] # x)

\* Server.start() is called.
StartCall ==
    /\ starter.pc = "idle"
    /\ starter' = [starter EXCEPT !.pc = "top"]
    /\ UNCHANGED <<coreVars, server, stopper, collector, processor>>

\* The top of the loop of start(): the reload request is cleared and the
\* queue is shared, which raises when the queue is None or the processor is
\* processing.
StartShareQueue ==
    /\ starter.pc = "top"
    /\ server' = [server EXCEPT !.should_reload = FALSE]
    /\ starter' = [starter EXCEPT !.pc =
          IF server.queue_none
             \/ processor[server.queue_processor].processing
          THEN "raised" ELSE "start_processor"]
    /\ UNCHANGED <<coreVars, stopper, collector, processor>>

\* _start_queue_processor starts the thread of the processor.
StartQueueProcessor ==
    /\ starter.pc = "start_processor"
    /\ processor' = [processor EXCEPT
                       ![server.queue_processor].thread = "started"]
    /\ starter' = [starter EXCEPT !.pc = "wait_processing",
                                  !.queue_thread = server.queue_processor]
    /\ UNCHANGED <<coreVars, server, stopper, collector>>

\* wait_until_processing returned and the processor is processing.
StartProcessing ==
    /\ starter.pc = "wait_processing"
    /\ processor[server.queue_processor].processing
    /\ server' = [server EXCEPT
                    !.running_queue_processor = server.queue_processor]
    /\ starter' = [starter EXCEPT !.pc = "start_collector",
                                  !.list = server.collectors, !.i = 1]
    /\ UNCHANGED <<coreVars, stopper, collector, processor>>

\* wait_until_processing timed out: the processor is shut down, its thread
\* is joined and start() raises.
StartTimeout ==
    /\ starter.pc = "wait_processing"
    /\ ~processor[server.queue_processor].processing
    /\ processor' = [processor EXCEPT
                       ![server.queue_processor].should_stop = TRUE]
    /\ starter' = [starter EXCEPT !.pc = "abort"]
    /\ UNCHANGED <<coreVars, server, stopper, collector>>

StartAbort ==
    /\ starter.pc = "abort"
    /\ processor[starter.queue_thread].thread = "ended"
    /\ starter' = [starter EXCEPT !.pc = "raised"]
    /\ UNCHANGED <<coreVars, server, stopper, collector, processor>>

\* _start_collectors starts the thread of the next collector.
StartCollector ==
    /\ starter.pc = "start_collector"
    /\ collector' = [collector EXCEPT
                       ![starter.list[starter.i]].thread = "started"]
    /\ starter' = [starter EXCEPT !.pc = "wait_queuing",
                                  !.threads = @ \cup {starter.list[starter.i]}]
    /\ UNCHANGED <<coreVars, server, stopper, processor>>

\* It waits until that collector queues requests and goes to the next one.
StartCollectorQueuing ==
    /\ starter.pc = "wait_queuing"
    /\ wait_until_queuing_requests(starter.list[starter.i])
    /\ server' = [server EXCEPT !.lists[server.running_collectors] =
                    Append(@, starter.list[starter.i])]
    /\ starter' = [starter EXCEPT !.i = @ + 1,
                     !.pc = IF starter.i + 1 > Len(starter.list)
                            THEN "run" ELSE "start_collector"]
    /\ UNCHANGED <<coreVars, stopper, collector, processor>>

\* The server is running, and a reload is signalled as done.
StartRunning ==
    /\ starter.pc = "run"
    /\ server' = [server EXCEPT !.running = TRUE,
                                !.reload = @ \/ starter.reloading]
    /\ starter' = [starter EXCEPT !.pc = "pause"]
    /\ UNCHANGED <<coreVars, stopper, collector, processor>>

\* _pause.wait() returns and the event is cleared.
StartPaused ==
    /\ starter.pc = "pause"
    /\ server.pause
    /\ server' = [server EXCEPT !.pause = FALSE]
    /\ starter' = [starter EXCEPT !.pc = "collectors", !.i = 1,
                                  !.running = server.running_collectors,
                                  !.stopped = <<>>]
    /\ UNCHANGED <<coreVars, stopper, collector, processor>>

\* _shutdown_collectors, run by the thread whose locals are loc: the loop
\* goes through the list object that _running_collectors referred to when
\* the loop began; the next collector in it is told to shut down, or the
\* loop is over and the stopped ones are removed from the list that
\* _running_collectors refers to now.
shutdown_collectors(loc, after, failed) ==
    IF loc.i <= Len(server.lists[loc.running])
    THEN /\ collector' = [collector EXCEPT
                            ![server.lists[loc.running][loc.i]].stop = TRUE]
         /\ loc' = [loc EXCEPT !.pc = "wait_collector",
                                !.cur = server.lists[loc.running][loc.i]]
         /\ UNCHANGED server
    ELSE /\ IF can_remove(server.lists[server.running_collectors],
                          loc.stopped)
            THEN /\ loc' = [loc EXCEPT !.pc = after]
                 /\ server' = [server EXCEPT
                      !.lists[server.running_collectors] =
                         remove_stopped(@, loc.stopped)]
            ELSE /\ loc' = [loc EXCEPT !.pc = failed]
                 /\ UNCHANGED server
         /\ UNCHANGED collector

\* wait_until_shutdown of the collector that was told to shut down.
collector_shut_down(loc) ==
    /\ collector[loc.cur].shutdown
    /\ loc' = [loc EXCEPT !.pc = "collectors", !.i = @ + 1,
                          !.stopped = Append(@, loc.cur)]

StartShutdownCollectors ==
    /\ starter.pc = "collectors"
    /\ shutdown_collectors(starter, "join_collectors", "raising")
    /\ UNCHANGED <<coreVars, stopper, processor>>

StartCollectorShutDown ==
    /\ starter.pc = "wait_collector"
    /\ collector_shut_down(starter)
    /\ UNCHANGED <<coreVars, server, stopper, collector, processor>>

\* The threads of the collectors are joined and the list is emptied.
StartJoinCollectors ==
    /\ starter.pc = "join_collectors"
    /\ \A c \in starter.threads : collector[c].thread = "ended"
    /\ server' = [server EXCEPT !.lists = Append(@, <<>>),
                                !.running_collectors = Len(server.lists) + 1]
    /\ starter' = [starter EXCEPT !.pc = "processor", !.threads = {}]
    /\ UNCHANGED <<coreVars, stopper, collector, processor>>

\* _shutdown_queue_processor, run by the thread whose locals are loc.
shutdown_queue_processor(loc, after) ==
    IF server.running_queue_processor = NoProcessor
    THEN /\ loc' = [loc EXCEPT !.pc = after]
         /\ UNCHANGED processor
    ELSE /\ processor' = [processor EXCEPT
                            ![server.running_queue_processor].should_stop = TRUE]
         /\ loc' = [loc EXCEPT !.pc = "wait_processor"]

queue_processor_shut_down(loc, after, failed) ==
    /\ server.running_queue_processor # NoProcessor
    /\ processor[server.running_queue_processor].shutdown
    /\ loc' = [loc EXCEPT !.pc =
          IF processor[server.running_queue_processor].processing
          THEN failed ELSE after]
    /\ server' = [server EXCEPT !.running_queue_processor =
          IF processor[server.running_queue_processor].processing
          THEN @ ELSE NoProcessor]

StartShutdownProcessor ==
    /\ starter.pc = "processor"
    /\ shutdown_queue_processor(starter, "finally")
    /\ UNCHANGED <<coreVars, server, stopper, collector>>

StartProcessorShutDown ==
    /\ starter.pc = "wait_processor"
    /\ queue_processor_shut_down(starter, "finally", "raising")
    /\ UNCHANGED <<coreVars, stopper, collector, processor>>

\* finally: the thread of the processor is joined and the server is no
\* longer running; start() goes round again when a reload was requested.
StartFinally ==
    /\ starter.pc = "finally"
    /\ processor[starter.queue_thread].thread = "ended"
    /\ server' = [server EXCEPT !.running = FALSE]
    /\ starter' = [starter EXCEPT !.reloading = server.should_reload,
                     !.pc = IF server.should_reload THEN "top" ELSE "returned"]
    /\ UNCHANGED <<coreVars, stopper, collector, processor>>

\* finally, on the way out with an exception raised in the try block (which
\* takes a shutdown() and a reload() at the same time).
StartFinallyRaising ==
    /\ starter.pc = "raising"
    /\ processor[starter.queue_thread].thread = "ended"
    /\ server' = [server EXCEPT !.running = FALSE]
    /\ starter' = [starter EXCEPT !.pc = "raised"]
    /\ UNCHANGED <<coreVars, stopper, collector, processor>>

StartStep ==
    \/ StartCall
    \/ StartShareQueue
    \/ StartQueueProcessor
    \/ StartProcessing
    \/ StartCollector
    \/ StartCollectorQueuing
    \/ StartRunning
    \/ StartPaused
    \/ StartShutdownCollectors
    \/ StartCollectorShutDown
    \/ StartJoinCollectors
    \/ StartShutdownProcessor
    \/ StartProcessorShutDown
    \/ StartFinally

\* Server.shutdown() is called from another thread, at any time after
\* start() was called (the signal handlers of the application call it).
ShutdownCall ==
    /\ stopper.pc = "idle"
    /\ starter.pc # "idle"
    /\ stopper' = [stopper EXCEPT !.pc = "collectors", !.i = 1,
                                  !.running = server.running_collectors,
                                  !.stopped = <<>>]
    /\ UNCHANGED <<coreVars, server, starter, collector, processor>>

\* Server.shutdown() is called on a running server.
ShutdownRunning ==
    /\ server.running
    /\ ShutdownCall

ShutdownCollectors ==
    /\ stopper.pc = "collectors"
    /\ shutdown_collectors(stopper, "processor", "raised")
    /\ UNCHANGED <<coreVars, starter, processor>>

ShutdownCollectorShutDown ==
    /\ stopper.pc = "wait_collector"
    /\ collector_shut_down(stopper)
    /\ UNCHANGED <<coreVars, server, starter, collector, processor>>

\* The processor is shut down only if the configured one is processing.
ShutdownProcessor ==
    /\ stopper.pc = "processor"
    /\ IF processor[server.queue_processor].processing
       THEN shutdown_queue_processor(stopper, "set_pause")
       ELSE /\ stopper' = [stopper EXCEPT !.pc = "set_pause"]
            /\ UNCHANGED processor
    /\ UNCHANGED <<coreVars, server, starter, collector>>

ShutdownProcessorShutDown ==
    /\ stopper.pc = "wait_processor"
    /\ queue_processor_shut_down(stopper, "set_pause", "raised")
    /\ UNCHANGED <<coreVars, starter, collector, processor>>

set_pause == [server EXCEPT !.pause = TRUE]

ShutdownSetPause ==
    /\ stopper.pc = "set_pause"
    /\ server' = set_pause
    /\ stopper' = [stopper EXCEPT !.pc = "close_queue"]
    /\ UNCHANGED <<coreVars, starter, collector, processor>>

\* _close_queue, and the shutdown event is set.
ShutdownCloseQueue ==
    /\ stopper.pc = "close_queue"
    /\ server' = [server EXCEPT !.queue_none = TRUE, !.shutdown = TRUE]
    /\ stopper' = [stopper EXCEPT !.pc = "done"]
    /\ UNCHANGED <<coreVars, starter, collector, processor>>

ShutdownStep ==
    \/ ShutdownCollectors
    \/ ShutdownCollectorShutDown
    \/ ShutdownProcessor
    \/ ShutdownProcessorShutDown
    \/ ShutdownSetPause
    \/ ShutdownCloseQueue

\* Server.shutdown(timeout) with a timeout, on a running server.  Time is
\* counted in whole ticks of stopper.clock and passes while shutdown() waits;
\* stopper.budget is the local variable timeout of _shutdown_collectors, and
\* then queue_timeout.
MaxClock == 3

MaxTimeout == 2

Timeouts == 1 .. MaxTimeout

Max(a, b) == IF a >= b THEN a ELSE b

TimedShutdownCall(timeout) ==
    /\ stopper.pc = "idle"
    /\ server.running
    /\ stopper' = [stopper EXCEPT !.pc = "timed_collectors", !.i = 1,
                                  !.running = server.running_collectors,
                                  !.stopped = <<>>,
                                  !.timeout = timeout, !.budget = timeout,
                                  !.start_time = stopper.clock]
    /\ UNCHANGED <<coreVars, server, starter, collector, processor>>

Tick ==
    /\ stopper.pc \in {"timed_wait_collector", "timed_wait_processor"}
    /\ stopper.clock < MaxClock
    /\ stopper' = [stopper EXCEPT !.clock = @ + 1]
    /\ UNCHANGED <<coreVars, server, starter, collector, processor>>

\* Event.wait(timeout) that began at stopper.wait returns: the event is set
\* or the time is up.
wait_returns(event, timeout) ==
    event \/ stopper.clock - stopper.wait >= timeout

TimedShutdownCollectors ==
    /\ stopper.pc = "timed_collectors"
    /\ IF stopper.i <= Len(server.lists[stopper.running])
       THEN /\ collector' = [collector EXCEPT
                  ![server.lists[stopper.running][stopper.i]].stop = TRUE]
            /\ stopper' = [stopper EXCEPT
                  !.pc = "timed_wait_collector",
                  !.cur = server.lists[stopper.running][stopper.i],
                  !.wait = stopper.clock]
            /\ UNCHANGED server
       ELSE /\ IF can_remove(server.lists[server.running_collectors],
                             stopper.stopped)
               THEN /\ stopper' = [stopper EXCEPT !.pc = "timed_processor"]
                    /\ server' = [server EXCEPT
                          !.lists[server.running_collectors] =
                             remove_stopped(@, stopper.stopped)]
               ELSE /\ stopper' = [stopper EXCEPT !.pc = "raised"]
                    /\ UNCHANGED server
            /\ UNCHANGED collector
    /\ UNCHANGED <<coreVars, starter, processor>>

\* wait_until_shutdown(timeout) of the collector returned: it counts as
\* stopped, and the time elapsed since the start is compared with, and then
\* taken from, what is left of the timeout.
TimedCollectorWaited ==
    /\ stopper.pc = "timed_wait_collector"
    /\ wait_returns(collector[stopper.cur].shutdown, stopper.budget)
    /\ LET time_elapsed == stopper.clock - stopper.start_time
           stopped == Append(stopper.stopped, stopper.cur)
       IN  IF time_elapsed > stopper.budget
           THEN IF can_remove(server.lists[server.running_collectors],
                              stopped)
                THEN /\ stopper' = [stopper EXCEPT !.pc = "timed_out",
                                                   !.stopped = stopped]
                     /\ server' = [server EXCEPT
                                     !.lists[server.running_collectors] =
                                        remove_stopped(@, stopped)]
                ELSE /\ stopper' = [stopper EXCEPT !.pc = "raised",
                                                   !.stopped = stopped]
                     /\ UNCHANGED server
           ELSE /\ stopper' = [stopper EXCEPT
                                 !.pc = "timed_collectors", !.i = @ + 1,
                                 !.stopped = stopped,
                                 !.budget = @ - time_elapsed]
                /\ UNCHANGED server
    /\ UNCHANGED <<coreVars, starter, collector, processor>>

\* queue_timeout = max(0.1, timeout - (time() - start_time)); a budget of 0
\* ticks stands for the tenth of a second.
TimedShutdownProcessor ==
    /\ stopper.pc = "timed_processor"
    /\ IF /\ processor[server.queue_processor].processing
          /\ server.running_queue_processor # NoProcessor
       THEN /\ processor' = [processor EXCEPT
                  ![server.running_queue_processor].should_stop = TRUE]
            /\ stopper' = [stopper EXCEPT
                  !.pc = "timed_wait_processor",
                  !.wait = stopper.clock,
                  !.budget = Max(0, stopper.timeout
                                     - (stopper.clock - stopper.start_time))]
       ELSE /\ stopper' = [stopper EXCEPT !.pc = "set_pause"]
            /\ UNCHANGED processor
    /\ UNCHANGED <<coreVars, server, starter, collector>>

TimedProcessorWaited ==
    /\ stopper.pc = "timed_wait_processor"
    /\ server.running_queue_processor # NoProcessor
    /\ wait_returns(processor[server.running_queue_processor].shutdown,
                    stopper.budget)
    /\ IF processor[server.running_queue_processor].processing
       THEN /\ stopper' = [stopper EXCEPT !.pc = "timed_out"]
            /\ UNCHANGED server
       ELSE /\ stopper' = [stopper EXCEPT !.pc = "set_pause"]
            /\ server' = [server EXCEPT
                            !.running_queue_processor = NoProcessor]
    /\ UNCHANGED <<coreVars, starter, collector, processor>>

TimedShutdownStep ==
    \/ TimedShutdownCollectors
    \/ TimedCollectorWaited
    \/ TimedShutdownProcessor
    \/ TimedProcessorWaited
    \/ ShutdownSetPause
    \/ ShutdownCloseQueue

\* A new processor and a new collector are configured and Server.reload()
\* is called on a running server.
Reload ==
    /\ server.running
    /\ stopper.pc \in {"idle", "done"}          \* _pause_lock is free
    /\ server.reloads < MaxReloads
    /\ server' = [server EXCEPT
                    !.reloads = @ + 1,
                    !.queue_processor = server.reloads + 2,
                    !.collectors = <<Len(FirstCollectors) + server.reloads + 1>>,
                    !.reload = FALSE, !.should_reload = TRUE, !.pause = TRUE]
    /\ UNCHANGED <<coreVars, starter, stopper, collector, processor>>

ThreadStep ==
    \/ \E c \in Collectors :
          CollectorRun(c) \/ CollectorQueues(c) \/ CollectorStop(c)
    \/ \E p \in Processors : ProcessorRun(p) \/ ProcessorStop(p)

ServerNext ==
    \/ StartStep
    \/ StartTimeout
    \/ StartAbort
    \/ ThreadStep
    \/ ShutdownCall
    \/ ShutdownStep

ServerSpec == Init /\ [][ServerNext]_vars

\* StopSpec: shutdown() is called on a running server, which may have been
\* asked to reload.  Every thread keeps running; the processor signals that
\* it is processing within the 30 seconds start() waits for it.
ThreadsRun ==
    /\ \A c \in Collectors : WF_vars(CollectorRun(c) \/ CollectorStop(c))
    /\ \A p \in Processors : WF_vars(ProcessorRun(p) \/ ProcessorStop(p))

StopNext ==
    \/ StartStep
    \/ ThreadStep
    \/ ShutdownRunning
    \/ ShutdownStep
    \/ Reload
    \/ StartFinallyRaising

StopSpec ==
    /\ Init
    /\ [][StopNext]_vars
    /\ WF_vars(StartStep)
    /\ WF_vars(StartFinallyRaising)
    /\ WF_vars(ShutdownStep)
    /\ ThreadsRun

\* ServerReloadSpec: reload() is called on a running server, each time
\* with a new processor and a new collector configured.
ServerReloadNext ==
    \/ StartStep
    \/ ThreadStep
    \/ Reload

ServerReloadSpec ==
    /\ Init
    /\ [][ServerReloadNext]_vars
    /\ WF_vars(StartStep)
    /\ ThreadsRun

(***************************************************************************)
(* The worker of a TCP connection (_enqueue_from_connection).  A text is a *)
(* sequence of characters: "a" a letter, "LF" the line feed, "CR" the      *)
(* carriage return, "eacute" a character of two bytes in UTF-8.  The peer sends the encoded text; the  *)
(* worker receives it in chunks of any size.  conn.chunks counts the       *)
(* chunks received and conn.flushed tells whether the incomplete line was  *)
(* put on the queue at the end (history).                                  *)
(***************************************************************************)
MaxText == 3

Chars == {"a", "LF", "CR", "eacute"}

Texts == UNION {[1 .. n -> Chars] : n \in 0 .. MaxText}

encode_char(c) ==
    CASE c = "a" -> <<"61">>
      [] c = "LF" -> <<"0a">>
      [] c = "CR" -> <<"0d">>
      [] c = "eacute" -> <<"c3", "a9">>

RECURSIVE encode(_)
encode(text) ==
    IF text = <<>> THEN <<>> ELSE encode_char(Head(text)) \o encode(Tail(text))

\* bytes.decode() succeeds: strict UTF-8, a character cut by the end of the
\* bytes or a byte out of place is an error.
RECURSIVE decodable(_)
decodable(bytes) ==
    IF bytes = <<>> THEN TRUE
    ELSE CASE Head(bytes) \in {"61", "0a", "0d"} -> decodable(Tail(bytes))
           [] Head(bytes) = "c3" ->
                /\ Len(bytes) >= 2
                /\ bytes[2] = "a9"
                /\ decodable(Tail(Tail(bytes)))
           [] OTHER -> FALSE

RECURSIVE decode(_)
decode(bytes) ==
    IF bytes = <<>> THEN <<>>
    ELSE CASE Head(bytes) = "61" -> <<"a">> \o decode(Tail(bytes))
           [] Head(bytes) = "0a" -> <<"LF">> \o decode(Tail(bytes))
           [] Head(bytes) = "0d" -> <<"CR">> \o decode(Tail(bytes))
           [] OTHER -> <<"eacute">> \o decode(Tail(Tail(bytes)))

\* str.splitlines(True): the lines of the text, each with its line
\* boundary, which is a line feed, a carriage return, or the two together.
RECURSIVE splitlines(_)
splitlines(text) ==
    IF text = <<>> THEN <<>>
    ELSE LET ends == {i \in 1 .. Len(text) : text[i] \in {"LF", "CR"}}
         IN  IF ends = {} THEN <<text>>
             ELSE LET first == CHOOSE i \in ends : \A j \in ends : i <= j
                      end == IF /\ text[first] = "CR"
                                /\ first < Len(text)
                                /\ text[first + 1] = "LF"
                             THEN first + 1 ELSE first
                  IN  <<SubSeq(text, 1, end)>>
                         \o splitlines(SubSeq(text, end + 1, Len(text)))

endswith_newline(line) == line # <<>> /\ line[Len(line)] = "LF"

\* The finally block: the incomplete line is put on the queue.
enqueue_incomplete(requests, incomplete_line_chunk) ==
    IF incomplete_line_chunk # <<>>
    THEN Append(requests, incomplete_line_chunk) ELSE requests

\* A connection is accepted and handed to a worker; the peer sends text.
Connect(text) ==
    /\ conn.pc = "idle"
    /\ conn' = [conn EXCEPT !.pc = "recv", !.text = text,
                            !.rest = encode(text)]
    /\ UNCHANGED <<appVars, client, sock, pool, addr>>

\* One turn of the loop: a chunk of size bytes is received, decoded, split
\* into lines and joined with the incomplete line kept from the chunk
\* before; the complete lines are put on the queue as one request.
EnqueueFromConnection(size) ==
    /\ conn.pc = "recv"
    /\ ~conn.stop
    /\ size <= Len(conn.rest)
    /\ LET buff_bytes == SubSeq(conn.rest, 1, size)
           rest == SubSeq(conn.rest, size + 1, Len(conn.rest))
           buff_text == decode(buff_bytes)
           lines == splitlines(buff_text)
           buff_lines ==
              IF conn.incomplete_line_chunk # <<>>
              THEN [lines EXCEPT ![1] = conn.incomplete_line_chunk \o @]
              ELSE lines
           incomplete == ~endswith_newline(buff_lines[Len(buff_lines)])
       IN  IF ~decodable(buff_bytes)
           THEN conn' = [conn EXCEPT
                   !.pc = "raised", !.rest = rest, !.got = @ \o buff_bytes,
                   !.chunks = @ + 1,
                   !.flushed = conn.incomplete_line_chunk # <<>>,
                   !.requests =
                      enqueue_incomplete(@, conn.incomplete_line_chunk)]
           ELSE conn' = [conn EXCEPT
                   !.rest = rest, !.got = @ \o buff_bytes,
                   !.chunks = @ + 1,
                   !.incomplete_line_chunk =
                      IF incomplete THEN buff_lines[Len(buff_lines)]
                      ELSE <<>>,
                   !.requests =
                      Append(@, Concat(IF incomplete
                                       THEN SubSeq(buff_lines, 1,
                                                   Len(buff_lines) - 1)
                                       ELSE buff_lines))]
    /\ UNCHANGED <<appVars, client, sock, pool, addr>>

\* recv returns no bytes: the peer has sent everything and closed.
ConnectionEnd ==
    /\ conn.pc = "recv"
    /\ ~conn.stop
    /\ conn.rest = <<>>
    /\ conn' = [conn EXCEPT
            !.pc = "closed",
            !.flushed = conn.incomplete_line_chunk # <<>>,
            !.requests = enqueue_incomplete(@, conn.incomplete_line_chunk)]
    /\ UNCHANGED <<appVars, client, sock, pool, addr>>

\* SocketServer.shutdown() sets the event the worker checks.
StopQueuing ==
    /\ conn.pc = "recv"
    /\ ~conn.stop
    /\ conn' = [conn EXCEPT !.stop = TRUE]
    /\ UNCHANGED <<appVars, client, sock, pool, addr>>

\* The worker finds the event set and leaves the loop.
ConnectionStopped ==
    /\ conn.pc = "recv"
    /\ conn.stop
    /\ conn' = [conn EXCEPT
            !.pc = "closed",
            !.flushed = conn.incomplete_line_chunk # <<>>,
            !.requests = enqueue_incomplete(@, conn.incomplete_line_chunk)]
    /\ UNCHANGED <<appVars, client, sock, pool, addr>>

ConnNext ==
    \/ \E text \in Texts : Connect(text)
    \/ \E size \in 1 .. 2 * MaxText : EnqueueFromConnection(size)
    \/ ConnectionEnd
    \/ StopQueuing
    \/ ConnectionStopped

ConnSpec == Init /\ [][ConnNext]_vars

(***************************************************************************)
(* A SocketServer for UDP: the thread that runs start(), and a caller of   *)
(* shutdown().  sock.socket tells whether the socket is bound (not None),  *)
(* sock.requests are the strings it has put on the queue.                  *)
(***************************************************************************)
MaxDatagrams == 2

should_stop_never(s) == FALSE

should_stop(s) == s.stop_queuing_requests

\* start(): _bind_socket() binds the socket, or raises and ends the thread.
SockBind ==
    /\ sock.pc = "idle"
    /\ \/ sock' = [sock EXCEPT !.pc = "serve", !.socket = TRUE]
       \/ sock' = [sock EXCEPT !.pc = "bind_error"]
    /\ UNCHANGED <<appVars, client, conn, pool, addr>>

\* while not self._should_shutdown.is_set(): self._shutdown.clear()
SockServe ==
    /\ sock.pc = "serve"
    /\ sock' = IF sock.should_shutdown
               THEN [sock EXCEPT !.pc = "do_shutdown"]
               ELSE [sock EXCEPT !.pc = "queue_requests", !.shutdown = FALSE]
    /\ UNCHANGED <<appVars, client, conn, pool, addr>>

\* _queue_requests_udp: self._queuing_requests.set()
SockQueuing ==
    /\ sock.pc = "queue_requests"
    /\ sock' = [sock EXCEPT !.pc = "loop", !.queuing_requests = TRUE]
    /\ UNCHANGED <<appVars, client, conn, pool, addr>>

\* while not should_stop(): ...; finally: self._queuing_requests.clear()
SockLoop ==
    /\ sock.pc = "loop"
    /\ sock' = IF should_stop(sock)
               THEN [sock EXCEPT !.pc = "serve", !.queuing_requests = FALSE]
               ELSE [sock EXCEPT !.pc = "recv"]
    /\ UNCHANGED <<appVars, client, conn, pool, addr>>

\* The datagrams receive(chunk_size) may return: the encoded text of one
\* character, a byte that is no UTF-8, or nothing.
Datagrams == {encode(<<c>>) : c \in Chars} \cup {<<"a9">>, <<>>}

\* A datagram that is not empty is decoded and put on the queue;
\* data.decode() raises for one that is not UTF-8, and the exception leaves
\* the loop through the finally block.
SockReceive(data) ==
    /\ sock.pc = "recv"
    /\ decodable(data) /\ data # <<>> => Len(sock.requests) < MaxDatagrams
    /\ sock' =
         IF data = <<>> THEN [sock EXCEPT !.pc = "loop"]
         ELSE IF decodable(data)
         THEN [sock EXCEPT !.pc = "loop",
                           !.requests = Append(@, decode(data))]
         ELSE [sock EXCEPT !.pc = "do_shutdown", !.queuing_requests = FALSE]
    /\ UNCHANGED <<appVars, client, conn, pool, addr>>

\* receive times out: data = None.
SockTimeout ==
    /\ sock.pc = "recv"
    /\ sock' = [sock EXCEPT !.pc = "loop"]
    /\ UNCHANGED <<appVars, client, conn, pool, addr>>

\* receive raises socket.error, which leaves the loop through the finally
\* block.
SockError ==
    /\ sock.pc = "recv"
    /\ sock' = [sock EXCEPT !.pc = "do_shutdown", !.queuing_requests = FALSE]
    /\ UNCHANGED <<appVars, client, conn, pool, addr>>

\* finally: self._do_shutdown()
SockDoShutdown ==
    /\ sock.pc = "do_shutdown"
    /\ sock' = [sock EXCEPT !.pc = "ended", !.socket = FALSE,
                            !.shutdown = TRUE]
    /\ UNCHANGED <<appVars, client, conn, pool, addr>>

SockThread ==
    \/ SockBind
    \/ SockServe
    \/ SockQueuing
    \/ SockLoop
    \/ \E data \in Datagrams : SockReceive(data)
    \/ SockTimeout
    \/ SockError
    \/ SockDoShutdown

\* SocketServer.shutdown(): self._stop_queuing_requests.set()
SockShutdown ==
    /\ sock.caller = "idle"
    /\ sock' = [sock EXCEPT !.caller = "shutdown",
                            !.stop_queuing_requests = TRUE]
    /\ UNCHANGED <<appVars, client, conn, pool, addr>>

\* ... and self._should_shutdown.set()
SockShouldShutdown ==
    /\ sock.caller = "shutdown"
    /\ sock' = [sock EXCEPT !.caller = "done", !.should_shutdown = TRUE]
    /\ UNCHANGED <<appVars, client, conn, pool, addr>>

SockNext ==
    \/ SockThread
    \/ SockShutdown
    \/ SockShouldShutdown

SockSpec ==
    /\ Init
    /\ [][SockNext]_vars
    /\ WF_vars(SockThread)
    /\ WF_vars(SockShouldShutdown)

(***************************************************************************)
(* ThreadPool and ExpandableThreadPool (navdoon.utils.system).  A task is  *)
(* <<task_id, arg>>: the function called with "this" or "that" returns the *)
(* word in capitals, called with "fails" it raises.  pool.task_results is  *)
(* the dictionary ("none": no such key), pool.returned are the             *)
(* <<task_id, arg>> of the do() calls that returned (history), and         *)
(* pool.executed counts the calls of the function of each task (history).  *)
(***************************************************************************)
MaxLimit == 2

PoolSizes == 1 .. 2

Callers == {1, 2}

TaskArgs == {"this", "that", "fails"}

\* _spawn_worker_threshold = 0.5, as a fraction
spawn_worker_threshold == <<1, 2>>

func(arg) == IF arg = "this" THEN "THIS" ELSE "THAT"

lock_free_always(p) == TRUE

can_spawn_without_limit(p) ==
    Len(p.queue) * spawn_worker_threshold[2]
       > spawn_worker_threshold[1] * p.size

\* with self._queue_lock: the lock can be taken
lock_free(p) == p.queue_lock = 0

WorkerThread == [kind |-> "WorkerThread", pc |-> "check", task |-> <<>>]

TemporaryWorkerThread ==
    [kind |-> "TemporaryWorkerThread", pc |-> "check", task |-> <<>>]

\* pool = cls(size); pool.workers_limit = limit; pool.initialize()
PoolInitialize(cls, size, limit) ==
    /\ pool.pc = "idle"
    /\ pool' = [pool EXCEPT
          !.pc = "initialized", !.cls = cls, !.size = size,
          !.workers_limit = limit,
          !.threads = [i \in 1 .. size |-> WorkerThread],
          !.max_workers_count =
             IF cls = "ExpandableThreadPool" THEN size ELSE 0]
    /\ UNCHANGED <<appVars, client, conn, sock, addr>>

\* do(func, arg) is called: it raises when the pool has stopped.
DoCall(c, arg) ==
    /\ pool.pc = "initialized"
    /\ pool.callers[c].pc = "idle"
    /\ pool.task_counter
          + Cardinality({d \in Callers : pool.callers[d].pc # "idle"})
            < MaxTasks
    /\ pool' = [pool EXCEPT
          !.callers[c].pc = IF pool.stop_event THEN "raised" ELSE "lock",
          !.callers[c].arg = arg]
    /\ UNCHANGED <<appVars, client, conn, sock, addr>>

\* with self._queue_lock: task_id = self._task_counter
DoTaskId(c) ==
    /\ pool.callers[c].pc = "lock"
    /\ lock_free(pool)
    /\ pool' = [pool EXCEPT !.queue_lock = c,
                            !.callers[c].pc = "locked",
                            !.callers[c].task_id = pool.task_counter]
    /\ UNCHANGED <<appVars, client, conn, sock, addr>>

\* self._task_counter += 1 and, in _handle_task, self._queue.put(...)
DoPut(c) ==
    /\ pool.callers[c].pc = "locked"
    /\ pool' = [pool EXCEPT
          !.task_counter = @ + 1,
          !.queue = Append(@, <<pool.callers[c].task_id,
                                pool.callers[c].arg>>),
          !.unfinished_tasks = @ + 1,
          !.callers[c].pc = "handle"]
    /\ UNCHANGED <<appVars, client, conn, sock, addr>>

_can_spawn_temp_worker(p) ==
    /\ Len(p.queue) * spawn_worker_threshold[2]
          > spawn_worker_threshold[1] * p.size
    /\ p.workers_limit = 0 \/ Len(p.threads) < p.workers_limit

\* The end of _handle_task, where the expandable pool may start a temporary
\* worker; the lock is released and do() returns the task id.
DoReturn(c) ==
    /\ pool.callers[c].pc = "handle"
    /\ LET spawn == /\ pool.cls = "ExpandableThreadPool"
                    /\ ~pool.stop_event
                    /\ _can_spawn_temp_worker(pool)
       IN  pool' = [pool EXCEPT
             !.threads = IF spawn THEN Append(@, TemporaryWorkerThread)
                         ELSE @,
             !.max_workers_count = IF spawn THEN @ + 1 ELSE @,
             !.queue_lock = 0,
             !.callers[c].pc = "idle",
             !.returned = Append(@, <<pool.callers[c].task_id,
                                      pool.callers[c].arg>>)]
    /\ UNCHANGED <<appVars, client, conn, sock, addr>>

\* _consume_queue: while not should_stop()
PoolWorkerCheck(w) ==
    /\ w \in DOMAIN pool.threads
    /\ pool.threads[w].pc = "check"
    /\ pool' = [pool EXCEPT !.threads[w].pc =
                   IF pool.stop_event THEN "ended" ELSE "get"]
    /\ UNCHANGED <<appVars, client, conn, sock, addr>>

\* _run_task_from_queue: self.queue.get(True, timeout) returns a task
PoolWorkerGet(w) ==
    /\ w \in DOMAIN pool.threads
    /\ pool.threads[w].pc = "get"
    /\ pool.queue # <<>>
    /\ pool' = [pool EXCEPT !.threads[w].pc = "run",
                            !.threads[w].task = Head(pool.queue),
                            !.queue = Tail(@)]
    /\ UNCHANGED <<appVars, client, conn, sock, addr>>

\* ... or raises Empty: a WorkerThread goes round its loop, a
\* TemporaryWorkerThread ends.
PoolWorkerEmpty(w) ==
    /\ w \in DOMAIN pool.threads
    /\ pool.threads[w].pc = "get"
    /\ pool.queue = <<>>
    /\ pool' = [pool EXCEPT !.threads[w].pc =
                   IF pool.threads[w].kind = "WorkerThread"
                   THEN "check" ELSE "ended"]
    /\ UNCHANGED <<appVars, client, conn, sock, addr>>

\* result = func(*args); self.results[task_id] = result;
\* self.queue.task_done().  An exception of func ends the thread.
PoolWorkerRun(w) ==
    /\ w \in DOMAIN pool.threads
    /\ pool.threads[w].pc = "run"
    /\ LET task == pool.threads[w].task
       IN  IF task[2] = "fails"
           THEN pool' = [pool EXCEPT !.threads[w].pc = "died",
                                     !.executed[task[1]] = @ + 1]
           ELSE pool' = [pool EXCEPT
                  !.threads[w].pc = "check",
                  !.executed[task[1]] = @ + 1,
                  !.task_results[task[1]] = func(task[2]),
                  !.unfinished_tasks = @ - 1]
    /\ UNCHANGED <<appVars, client, conn, sock, addr>>

\* stop(): self._stop_event.set()
PoolStop ==
    /\ pool.pc = "initialized"
    /\ pool' = [pool EXCEPT !.pc = "stopping", !.stop_event = TRUE]
    /\ UNCHANGED <<appVars, client, conn, sock, addr>>

\* ... and, every thread joined, self._threads = []
PoolJoined ==
    /\ pool.pc = "stopping"
    /\ \A w \in DOMAIN pool.threads :
          pool.threads[w].pc \in {"ended", "died"}
    /\ pool' = [pool EXCEPT !.pc = "stopped", !.threads = <<>>]
    /\ UNCHANGED <<appVars, client, conn, sock, addr>>

\* wait_until_done() is called: self._queue.join()
WaitUntilDone ==
    /\ pool.pc = "initialized"
    /\ pool.waiter.pc = "idle"
    /\ pool' = [pool EXCEPT
          !.waiter = [pc |-> "join",
                      ids |-> {pool.returned[i][1] :
                                  i \in DOMAIN pool.returned}]]
    /\ UNCHANGED <<appVars, client, conn, sock, addr>>

\* join() returns when every task put on the queue is done.
WaitReturned ==
    /\ pool.waiter.pc = "join"
    /\ pool.unfinished_tasks = 0
    /\ pool' = [pool EXCEPT !.waiter.pc = "returned"]
    /\ UNCHANGED <<appVars, client, conn, sock, addr>>

\* get_result(task_id): the result, or ValueError
get_result(p, task_id) ==
    IF task_id \in DOMAIN p.task_results /\ p.task_results[task_id] # "none"
    THEN p.task_results[task_id]
    ELSE "ValueError"

PoolWorker(w) ==
    \/ PoolWorkerCheck(w)
    \/ PoolWorkerGet(w)
    \/ PoolWorkerEmpty(w)
    \/ PoolWorkerRun(w)

PoolNext ==
    \/ \E size \in PoolSizes : PoolInitialize("ThreadPool", size, 0)
    \/ \E size \in PoolSizes, limit \in 0 .. MaxLimit :
          PoolInitialize("ExpandableThreadPool", size, limit)
    \/ \E c \in Callers, arg \in TaskArgs : DoCall(c, arg)
    \/ \E c \in Callers : DoTaskId(c) \/ DoPut(c) \/ DoReturn(c)
    \/ \E w \in 1 .. (2 + MaxTasks) : PoolWorker(w)
    \/ PoolStop
    \/ PoolJoined
    \/ WaitUntilDone
    \/ WaitReturned

PoolSpec == Init /\ [][PoolNext]_vars

(***************************************************************************)
(* The pool as the TCP collector uses it (_queue_requests_tcp): an         *)
(* ExpandableThreadPool, and the accept loop as the only caller of do(),   *)
(* one call for each accepted connection.  The task serves the connection  *)
(* and may never end, so the step that ends a task is not fair; the        *)
(* accept loop and the polling of the workers are.                         *)
(***************************************************************************)
AcceptLoop == DoTaskId(1) \/ DoPut(1) \/ DoReturn(1)

WorkerPolls(w) ==
    PoolWorkerCheck(w) \/ PoolWorkerGet(w) \/ PoolWorkerEmpty(w)

AcceptNext ==
    \/ \E size \in PoolSizes, limit \in 0 .. MaxLimit :
          PoolInitialize("ExpandableThreadPool", size, limit)
    \/ \E arg \in TaskArgs : DoCall(1, arg)
    \/ AcceptLoop
    \/ \E w \in 1 .. (2 + MaxTasks) : WorkerPolls(w) \/ PoolWorkerRun(w)
    \/ PoolStop
    \/ PoolJoined

AcceptSpec ==
    /\ Init
    /\ [][AcceptNext]_vars
    /\ WF_vars(AcceptLoop)
    /\ \A w \in 1 .. (2 + MaxTasks) : WF_vars(WorkerPolls(w))

(***************************************************************************)
(* App.get_addresses_with_unique_ports.  An address is what                *)
(* address.strip().split(':') gives: <<host>> or <<host, port_str>>.       *)
(***************************************************************************)
MaxAddresses == 3

DEFAULT_PORT == 8125

PortStrings == {"", "-23", "0", "8125", "8126", "65536"}

\* int(port_str)
int(port_str) ==
    CASE port_str = "-23" -> -23
      [] port_str = "0" -> 0
      [] port_str = "8125" -> 8125
      [] port_str = "8126" -> 8126
      [] port_str = "65536" -> 65536

AddressTuples ==
    {<<"localhost">>} \cup {<<"localhost", p>> : p \in PortStrings}

AddressLists == UNION {[1 .. n -> AddressTuples] : n \in 1 .. MaxAddresses}

ValueError == [raised |-> "ValueError", value |-> <<>>]

\* The loop over address_tuples from the i-th on, with result and ports as
\* they are then: what is returned, or the exception raised.
RECURSIVE unique_ports_from(_, _, _, _)
unique_ports_from(address_tuples, i, result, ports) ==
    IF i > Len(address_tuples) THEN [raised |-> "", value |-> result]
    ELSE LET address == address_tuples[i]
             host == address[1]
         IN  IF Len(address) > 1 /\ address[2] # ""
             THEN LET port == int(address[2])
                  IN  IF port < 1 \/ port > 65535 THEN ValueError
                      ELSE IF port \in ports THEN ValueError
                      ELSE unique_ports_from(address_tuples, i + 1,
                                             Append(result, <<host, port>>),
                                             ports \cup {port})
             ELSE unique_ports_from(address_tuples, i + 1,
                                    Append(result, <<host, DEFAULT_PORT>>),
                                    ports \cup {DEFAULT_PORT})

get_addresses_with_unique_ports(address_tuples) ==
    unique_ports_from(address_tuples, 1, <<>>, {})

GetAddresses(address_tuples) ==
    /\ addr' = [pc |-> "called", addresses |-> address_tuples,
                result |-> get_addresses_with_unique_ports(address_tuples)]
    /\ UNCHANGED <<appVars, client, conn, sock, pool>>

AddrNext == \E address_tuples \in AddressLists : GetAddresses(address_tuples)

AddrSpec == Init /\ [][AddrNext]_vars

(***************************************************************************)
(* TCPClient (navdoon.utils.common): _send_with_lock and what it calls.    *)
(* client.sock tells whether self._sock is a socket; a connect and a       *)
(* sendall succeed or fail with socket.error as the network decides.       *)
(* client.sends counts the calls of _send_with_lock and client.attempts    *)
(* the connection attempts made during the current one (history).          *)
(***************************************************************************)
MaxRetry == 3

MaxSends == 3

reached_max_never(max_retry, tries) == FALSE

\* if max_retry and max_retry <= self._connection_tries
reached_max(max_retry, tries) == max_retry # 0 /\ max_retry <= tries

\* client.max_retry = M and _send_with_lock(data_bytes) is called, again
\* after it returned or raised: the loop begins with self._connection()
ClientSend(M) ==
    /\ client.pc \in {"idle", "sent", "raised"}
    /\ client.pc = "idle" \/ M = client.max_retry
    /\ client.sends < MaxSends
    /\ client' = [client EXCEPT !.pc = "connection", !.max_retry = M,
                                !.sends = @ + 1, !.attempts = 0]
    /\ UNCHANGED <<appVars, conn, sock, pool, addr>>

\* _connection(): if not self._sock, connect in a loop; return self._sock
ClientConnection ==
    /\ client.pc = "connection"
    /\ client' = [client EXCEPT
                    !.pc = IF client.sock THEN "sendall" ELSE "connect"]
    /\ UNCHANGED <<appVars, conn, sock, pool, addr>>

\* One round of the loop of _connection(): self._connection_tries += 1 and
\* sock.connect(...); when it fails, IOError at the maximum, else sleep and
\* go round.
ClientConnect(ok) ==
    /\ client.pc = "connect"
    /\ LET tries == client.connection_tries + 1
       IN  client' = [client EXCEPT
              !.connection_tries = tries,
              !.attempts = @ + 1,
              !.sock = ok,
              !.pc = IF ok THEN "sendall"
                     ELSE IF reached_max(client.max_retry, tries)
                          THEN "raised" ELSE "connect"]
    /\ UNCHANGED <<appVars, conn, sock, pool, addr>>

\* sock.sendall(data_bytes): break, or on socket.error reconnect():
\* IOError when self._connection_tries >= self.max_retry, else
\* disconnect() and connect()
ClientSendall(ok) ==
    /\ client.pc = "sendall"
    /\ client' = IF ok THEN [client EXCEPT !.pc = "sent"]
                 ELSE IF client.connection_tries >= client.max_retry
                      THEN [client EXCEPT !.pc = "raised"]
                      ELSE [client EXCEPT !.pc = "connect", !.sock = FALSE]
    /\ UNCHANGED <<appVars, conn, sock, pool, addr>>

ClientThread ==
    \/ ClientConnection
    \/ \E ok \in BOOLEAN : ClientConnect(ok)
    \/ \E ok \in BOOLEAN : ClientSendall(ok)

ClientNext ==
    \/ \E M \in 1 .. MaxRetry : ClientSend(M)
    \/ ClientThread

\* The thread that sends keeps running.
ClientSpec ==
    /\ Init
    /\ [][ClientNext]_vars
    /\ WF_vars(ClientThread)

\* Server.start() is called again on a server whose start() has returned
\* after a completed shutdown().
StartAgain ==
    /\ starter.pc = "returned"
    /\ stopper.pc = "done"
    /\ starter' = [starter EXCEPT !.pc = "top", !.reloading = FALSE]
    /\ UNCHANGED <<coreVars, server, stopper, collector, processor>>

\* RestartSpec: a server is started, maybe reloaded, shut down, and started
\* again.
RestartNext ==
    \/ StartStep
    \/ ThreadStep
    \/ ShutdownRunning
    \/ ShutdownStep
    \/ Reload
    \/ StartFinallyRaising
    \/ StartAgain

RestartSpec == Init /\ [][RestartNext]_vars

\* BindSpec: the address of a collector may be in use when its thread binds
\* the socket.
BindNext ==
    \/ StartStep
    \/ ThreadStep
    \/ \E c \in Collectors : CollectorBindFails(c)
    \/ Reload

BindSpec ==
    /\ Init
    /\ [][BindNext]_vars
    /\ WF_vars(StartStep)
    /\ ThreadsRun

\* TimedSpec: shutdown(timeout) is called on a running server, which may
\* have been reloaded; collectors and the processor take any time to stop.
TimedNext ==
    \/ StartStep
    \/ ThreadStep
    \/ Reload
    \/ \E timeout \in Timeouts : TimedShutdownCall(timeout)
    \/ TimedShutdownStep
    \/ Tick

TimedSpec == Init /\ [][TimedNext]_vars

(***************************************************************************)
(* Reference values, computed from the history of added metrics.           *)
(***************************************************************************)
Names == {"a", "b"}

OfKind(h, kinds, name) ==
    SelectSeq(h, LAMBDA m : m.kind \in kinds /\ m.name = name)

\* the sum of count / sample_rate over the counter samples of a name
CounterSum(h, name) ==
    LET cs == OfKind(h, {"Counter"}, name)
    IN  RSum([i \in 1..Len(cs) |-> RDiv(cs[i].count, cs[i].sample_rate)])

\* the most recent absolute value (0 if none) plus the deltas after it
GaugeValue(h, name) ==
    LET gs   == OfKind(h, {"Gauge", "GaugeDelta"}, name)
        abss == {i \in 1..Len(gs) : gs[i].kind = "Gauge"}
        k    == IF abss = {} THEN 0
                ELSE CHOOSE i \in abss : \A j \in abss : j <= i
        base == IF k = 0 THEN Num(0) ELSE gs[k].value
    IN  RAdd(base, RSum([i \in 1..(Len(gs) - k) |-> gs[k + i].delta]))

\* the distinct members observed for a name
Members(h, name) ==
    LET ss == OfKind(h, {"Set"}, name) IN {ss[i].value : i \in 1..Len(ss)}

\* the durations observed for a name, in arrival order
Durations(h, name) ==
    LET ts == OfKind(h, {"Timer"}, name)
    IN  [i \in 1..Len(ts) |-> ts[i].milliseconds]

IsAscending(s) == \A i \in 1..(Len(s) - 1) : ~RLess(s[i + 1], s[i])

Count(s, x) == Cardinality({i \in 1..Len(s) : s[i] = x})

SameBag(s, t) ==
    /\ Len(s) = Len(t)
    /\ \A i \in 1..Len(s) : Count(s, s[i]) = Count(t, s[i])

\* the sorted list of a data set: the ascending list with the same elements
SortedList(data) ==
    CHOOSE s \in [1..Len(data) -> {data[i] : i \in 1..Len(data)}] :
        IsAscending(s) /\ SameBag(s, data)

\* the median of N >= 1 values
Median(data) ==
    LET n == Len(data)
        s == SortedList(data)
    IN  IF n = 1 THEN data[1]
        ELSE IF n = 2 THEN RDiv(RAdd(data[1], data[2]), Num(2))
        ELSE IF n % 2 = 1 THEN s[(n + 1) \div 2]
        ELSE RDiv(RAdd(s[n \div 2], s[n \div 2 + 1]), Num(2))

\* the record of a batch named name (at most one is expected)
RecordsNamed(metrics, name) ==
    SelectSeq(metrics, LAMBDA r : r[1] = name)

(***************************************************************************)
(* C3.  After any sequence of add() calls since the last clear, a name has *)
(* a counter exactly when a counter sample of that name was added, and the *)
(* counter equals the sum of count / sample_rate over those samples;       *)
(* samples of other names and kinds do not change it.                      *)
(***************************************************************************)
C3_CounterIsSum ==
    \A name \in Names :
        /\ name \in DOMAIN shelf.counters
              <=> OfKind(added, {"Counter"}, name) # <<>>
        /\ name \in DOMAIN shelf.counters
              => shelf.counters[name] = CounterSum(added, name)

\* a:1|c and a:3|c|@0.5 and a sample of another kind were added: a = 1 + 6
C3_Witness ==
    /\ Len(OfKind(added, {"Counter"}, "a")) = 2
    /\ Len(added) = 3
    /\ "a" \in DOMAIN shelf.counters
    /\ shelf.counters["a"] = Num(7)

(***************************************************************************)
(* C4.  After any sequence of gauge and gauge-delta samples of a name      *)
(* since the last clear, the gauge equals the most recent absolute value   *)
(* (0 if there is none) plus the sum of the deltas received after it.      *)
(***************************************************************************)
C4_GaugeIsLastAbsolutePlusDeltas ==
    \A name \in Names :
        /\ name \in DOMAIN shelf.gauges
              <=> OfKind(added, {"Gauge", "GaugeDelta"}, name) # <<>>
        /\ name \in DOMAIN shelf.gauges
              => shelf.gauges[name] = GaugeValue(added, name)

\* a delta, then the absolute value 5, then the delta +2: the gauge is 7
C4_Witness ==
    /\ added = <<GaugeDelta("a", Num(-1)), Gauge("a", Num(5)),
                 GaugeDelta("a", Num(2))>>
    /\ shelf.gauges["a"] = Num(7)

(***************************************************************************)
(* C5.  After any sequence of set samples since the last clear, the set of *)
(* a name holds exactly the distinct members observed for the name, and    *)
(* the value flushed for the name is the number of distinct members.       *)
(***************************************************************************)
C5_SetIsDistinctMembers ==
    /\ \A name \in Names :
          /\ name \in DOMAIN shelf.sets <=> Members(added, name) # {}
          /\ name \in DOMAIN shelf.sets
                => shelf.sets[name] = Members(added, name)
    /\ ret.call = "flush" =>
          \A name \in Names :
              Members(ret.of, name) # {} =>
                  \E i \in 1..Len(ret.metrics) :
                      ret.metrics[i] =
                          <<<<name>>, Num(Cardinality(Members(ret.of, name))),
                            ret.timestamp>>

\* x, y and x again were added to the set a, and the flush reports 2
C5_Witness ==
    /\ ret.call = "flush"
    /\ ret.of = <<SetMetric("a", "x"), SetMetric("a", "y"),
                  SetMetric("a", "x")>>
    /\ ret.metrics = <<<<<<"a">>, Num(2), ret.timestamp>>>>

(***************************************************************************)
(* C6.  For a timer name with N >= 1 samples the median reported at the    *)
(* snapshot is the element for N = 1, the mean of the two for N = 2, the   *)
(* middle element of the sorted list for odd N and the mean of the two     *)
(* middle elements of the sorted list for even N > 2.                      *)
(***************************************************************************)
C6_MedianReported ==
    ret.call = "flush" =>
        \A name \in Names :
            Durations(ret.of, name) # <<>> =>
                \E i \in 1..Len(ret.metrics) :
                    ret.metrics[i] =
                        <<<<name, "median">>, Median(Durations(ret.of, name)),
                          ret.timestamp>>

\* The part of C6 the code satisfies: N = 1, N = 2 and odd N.
C6_MedianUpToThree ==
    ret.call = "flush" =>
        \A name \in Names :
            LET data == Durations(ret.of, name)
            IN  data # <<>> /\ (Len(data) <= 2 \/ Len(data) % 2 = 1) =>
                    \E i \in 1..Len(ret.metrics) :
                        ret.metrics[i] =
                            <<<<name, "median">>, Median(data), ret.timestamp>>

(***************************************************************************)
(* C7.  A flush batch holds, for the shelf at the snapshot, one record     *)
(* (name, value) per counter and per gauge, one record (name, number of    *)
(* members) per set and, per timer name with N >= 1 samples, exactly the   *)
(* five records name.count = N, name.min, name.max, name.mean = sum / N    *)
(* and name.median; nothing else; and every record carries the timestamp   *)
(* of the flush.  (The value of name.median is the subject of C6.)         *)
(***************************************************************************)
Least(data) ==
    CHOOSE x \in {data[i] : i \in 1..Len(data)} :
        \A i \in 1..Len(data) : ~RLess(data[i], x)

Greatest(data) ==
    CHOOSE x \in {data[i] : i \in 1..Len(data)} :
        \A i \in 1..Len(data) : ~RLess(x, data[i])

ExpectedValues(h, name) ==
    (IF OfKind(h, {"Counter"}, name) # <<>>
        THEN <<CounterSum(h, name)>> ELSE <<>>)
    \o (IF OfKind(h, {"Gauge", "GaugeDelta"}, name) # <<>>
        THEN <<GaugeValue(h, name)>> ELSE <<>>)
    \o (IF Members(h, name) # {}
        THEN <<Num(Cardinality(Members(h, name)))>> ELSE <<>>)

ValuesNamed(metrics, name) ==
    LET rs == RecordsNamed(metrics, name) IN [i \in 1..Len(rs) |-> rs[i][2]]

C7_BatchContents ==
    ret.call = "flush" =>
        /\ \A i \in 1..Len(ret.metrics) : ret.metrics[i][3] = ret.timestamp
        /\ \A i \in 1..Len(ret.metrics) :
              \E name \in Names :
                  \/ ret.metrics[i][1] = <<name>>
                  \/ \E j \in 1..Len(StatOrder) :
                        ret.metrics[i][1] = <<name, StatOrder[j]>>
        /\ \A name \in Names :
              LET data == Durations(ret.of, name)
                  One(stat) == ValuesNamed(ret.metrics, <<name, stat>>)
              IN  /\ SameBag(ValuesNamed(ret.metrics, <<name>>),
                             ExpectedValues(ret.of, name))
                  /\ data = <<>> =>
                        \A j \in 1..Len(StatOrder) : One(StatOrder[j]) = <<>>
                  /\ data # <<>> =>
                        /\ One("count") = <<Num(Len(data))>>
                        /\ One("min") = <<Least(data)>>
                        /\ One("max") = <<Greatest(data)>>
                        /\ One("mean") = <<RDiv(RSum(data), Num(Len(data)))>>
                        /\ Len(One("median")) = 1

\* a counter, a set of two members and the timers 4, 1 were flushed at 2
C7_Witness ==
    /\ ret.call = "flush"
    /\ ret.timestamp = 2
    /\ ret.of = <<Counter("a", Num(3), <<1, 2>>), SetMetric("a", "x"),
                  Timer("a", Num(4)), Timer("a", Num(1))>>
    /\ Len(ret.metrics) = 7
    /\ \E i \in 1..7 : ret.metrics[i] = <<<<"a", "mean">>, <<5, 2>>, 2>>

(***************************************************************************)
(* The processor: what becomes of the samples added to the shelf.          *)
(***************************************************************************)
Range(s) == {s[i] : i \in DOMAIN s}

\* the samples in the dictionaries of the shelf
Aggregated == AllIds(tags)

\* the samples in the copies held by the flush() in progress
Captured == AllIds(fl.ids)

\* the samples in the batches built so far
Flushed == UNION {batches[k].ids : k \in DOMAIN batches}

\* C1: the capture and the clearing of the four dictionaries by
\* _get_metrics_and_clear_shelf are atomic with respect to add() on another
\* thread, so that no sample whose add() completed is missing from every
\* batch: each one is in a batch built, in the copies of the flush in
\* progress, or still on the shelf for the next flush.
C1_NoCompletedAddIsLost ==
    1..samples \subseteq (Aggregated \cup Captured \cup Flushed)

\* C2: no sample is aggregated into two flushes: the batches built hold
\* disjoint samples, a sample in a batch is neither on the shelf nor in the
\* copies of a later flush, and no batch reaches a destination twice.
C2_NoSampleInTwoFlushes ==
    /\ \A j, k \in DOMAIN batches :
          j # k => batches[j].ids \cap batches[k].ids = {}
    /\ Flushed \cap (Aggregated \cup Captured) = {}
    /\ \A d \in Destinations :
          LET seen == received[d] \o fqueue[queue_of(d)]
          IN  \A i, j \in DOMAIN seen : i # j => seen[i] # seen[j]

\* two flushes, each with samples of the one request, both handed to d1
C2_Witness ==
    /\ Len(batches) >= 2
    /\ batches[1].ids # {}
    /\ batches[2].ids # {}
    /\ Len(received["d1"]) >= 2

\* the lines of a request that parse, and those that do not, blank lines
\* left out
ValidLines(request) ==
    {i \in DOMAIN request :
        strip(request[i]) # <<>>
            /\ parse_metric_from_request(strip(request[i])).ok}

InvalidLines(request) ==
    {i \in DOMAIN request :
        strip(request[i]) # <<>>
            /\ ~parse_metric_from_request(strip(request[i])).ok}

\* C8: a line of a request that fails to parse is logged and skipped alone:
\* the step that meets it appends the line to the error log, leaves the
\* shelf as it was and keeps the lines after it for the next steps; a line
\* that parses is added and logs nothing; a request worked through to its
\* end had every valid line added and every invalid line logged; no error
\* is logged for an empty or blank line.
C8_BadLineIsSkippedAlone ==
    [][ /\ (proc.pc = "lines" /\ ~ev.should_stop_processing /\ proc' # proc)
            => LET line == Head(proc.lines)
               IN  /\ proc'.lines = Tail(proc.lines)
                   /\ IF parse_metric_from_request(line).ok
                      THEN /\ errors' = errors
                           /\ samples' = samples + 1
                           /\ proc'.parsed = proc.parsed + 1
                      ELSE /\ errors' = Append(errors, line)
                           /\ shelf' = shelf
                           /\ samples' = samples
                           /\ proc'.failed = proc.failed + 1
        /\ (proc.has_data /\ proc.pc = "loop" /\ proc.lines = <<>>
                /\ proc.data \notin {StopToken, EmptyRequest})
            => /\ proc.parsed = Cardinality(ValidLines(proc.data))
               /\ proc.failed = Cardinality(InvalidLines(proc.data))
        /\ \A i \in DOMAIN errors : errors[i] # <<>>
      ]_vars

\* the request with a blank line and a bad line between two valid ones,
\* worked through: both valid lines added, the bad one logged
C8_Witness ==
    /\ proc.pc = "loop"
    /\ proc.data = <<LineSetX, LineBlank, LineBadType, LineSetY>>
    /\ proc.lines = <<>>
    /\ proc.parsed = 2
    /\ proc.failed = 1
    /\ errors = <<strip(LineBadType)>>
    /\ samples = 2

\* C9: when destination.flush raises, the flush thread of the destination
\* keeps running, so that a batch put on its queue afterwards is passed to
\* destination.flush: a batch waiting on the queue of a destination has a
\* running flush thread to take it.
C9_LaterBatchIsFlushed ==
    \A d \in destinations :
        fqueue[queue_of(d)] # <<>> => worker[d].pc \in {"check", "get", "flush"}

\* every batch put on the queues so far was handed to destination d
Delivered(d) ==
    \A k \in DOMAIN batches : batches[k].to # {} => k \in Range(received[d])

\* C10: a destination whose flush() raises or does not return stops neither
\* the other destinations nor process(): every batch put on the queues by
\* flush() reaches the flush() of each destination that is not faulty
\* (again and again all of them have), the ingress queue is emptied again
\* and again, the loop of process() comes round again and again once it
\* has started, and a batch is handed to a destination by
\* the flush thread of that destination only, never by a step of process().
\* Meanwhile a batch put on the queues is one the destination was handed or
\* one waiting on the queue of that destination.
C10_SinksAreIndependent ==
    /\ [](\A k \in DOMAIN batches : \A d \in destinations \ Faulty :
            batches[k].to # {}
                => \/ k \in Range(received[d])
                   \/ k \in Range(fqueue[queue_of(d)]))
    /\ \A d \in Destinations \ Faulty : []<>Delivered(d)
    /\ []<>(queue = <<>>)
    /\ []<>(proc.pc = "loop")
    /\ [][\A d \in Destinations :
            received'[d] # received[d]
                => worker[d].pc = "get" /\ proc' = proc]_vars

\* the flush thread of d1 ended on the first batch, the second batch waits
\* on its queue, and d2 was handed both batches
C10_Witness ==
    /\ worker["d1"].pc = "died"
    /\ received["d1"] = <<1>>
    /\ fqueue["d1"] = <<2>>
    /\ received["d2"] = <<1, 2>>
    /\ batches[2].ids # {}

\* the batches destination d was handed, followed by those waiting for it
Seen(d) == received[d] \o fqueue[queue_of(d)]

\* C11: a destination is handed the batches in the order flush() built
\* them: the batches handed to it and then those waiting on its queue are
\* in increasing order of production, and a batch flush() put on the
\* queues was put on the queue of every destination.
C11_DeliveredInOrder ==
    /\ \A d \in Destinations :
          \A i, j \in DOMAIN Seen(d) : i < j => Seen(d)[i] < Seen(d)[j]
    /\ \A k \in DOMAIN batches :
          batches[k].to # {}
              => /\ batches[k].to = {queue_of(d) : d \in destinations}
                 /\ \A d \in destinations : k \in Range(Seen(d))

\* two batches wait on the queue of d1 while d2 was handed both
C11_Witness ==
    /\ fqueue["d1"] = <<1, 2>>
    /\ received["d2"] = <<1, 2>>

\* C12: told to stop, the flush thread of a destination first hands over
\* what is already on its queue: at the step by which the thread leaves its
\* loop on should_stop(), no batch is left waiting on the queue.
C12_WorkerDrainsBeforeExit ==
    [][\A d \in Destinations :
          (worker[d].pc = "check" /\ worker'[d].pc = "exited")
              => fqueue[queue_of(d)] = <<>>]_vars

\* C13: set_destinations called while process() runs replaces the flush
\* threads by threads for the new destinations, so that a batch flushed
\* afterwards goes to the new destinations: a batch built while processing
\* is put on the queue of each destination set at that time.
C13_BatchGoesToNewDestinations ==
    [][(Len(batches') > Len(batches) /\ ev.processing)
          => batches'[Len(batches')].to = {queue_of(d) : d \in destinations}
      ]_vars

\* C14: process() returning and being called again neither clears the
\* shelf nor drains the ingress queue: the samples on the shelf when
\* process() returned are still on the shelf or in a batch flushed since,
\* as is every sample ever added; the steps by which process() stops and
\* starts again leave the shelf and the queue as they are; and the queue
\* only ever loses the request at its head to the queue_get of the loop.
C14_ReloadKeepsShelfAndQueue ==
    /\ [](proc.held \subseteq (Aggregated \cup Captured \cup Flushed))
    /\ [](1..samples \subseteq (Aggregated \cup Captured \cup Flushed))
    /\ [][(proc' # proc
               /\ (proc'.pc \in {"finally", "join", "stopped"}
                      \/ proc.pc = "stopped"))
            => shelf' = shelf /\ tags' = tags /\ queue' = queue]_vars
    /\ [][queue' # queue
            => \/ \E request \in Requests : queue' = Append(queue, request)
               \/ queue' = Append(queue, StopToken)
               \/ proc.pc = "get" /\ queue # <<>> /\ queue' = Tail(queue)
                     /\ proc'.data = Head(queue)]_vars

\* process() returned with samples on the shelf, was called again, and the
\* flush of the new run put them in a batch handed to d1
C14_Witness ==
    /\ proc.pc = "loop"
    /\ proc.held # {}
    /\ proc.held \subseteq Flushed
    /\ received["d1"] # <<>>

\* the requests popped from the ingress queue so far
Popped == enqueued - Cardinality({i \in DOMAIN queue : queue[i] # StopToken})

RECURSIVE TotalOf(_, _)
TotalOf(requests, valid) ==
    IF requests = <<>> THEN 0
    ELSE Cardinality(IF valid THEN ValidLines(Head(requests))
                     ELSE InvalidLines(Head(requests)))
            + TotalOf(Tail(requests), valid)

\* the samples added and the errors logged are those of n whole requests
WholeRequests(n) ==
    \E done \in [1..n -> Requests] :
        /\ samples = TotalOf(done, TRUE)
        /\ Len(errors) = TotalOf(done, FALSE)

TokenPopped == proc.has_data /\ proc.data = StopToken

\* C15: popping the stop token ends process(): the loop is left only for
\* the token and the token adds nothing to the shelf; the requests popped
\* before it were worked through to their last line; from then on no
\* request leaves the queue; and process() comes to its end, with
\* is_processing() false and the shutdown event set.
C15_StopToken ==
    /\ [](proc.pc \in {"finally", "join", "stopped"} => TokenPopped)
    /\ [](TokenPopped => proc.lines = <<>> /\ WholeRequests(Popped))
    /\ [][TokenPopped
            => /\ Len(queue') >= Len(queue)
               /\ shelf' = shelf \/ flush_lock = "proc"]_vars
    /\ [](proc.pc = "stopped" => ~ev.processing /\ ev.shutdown)
    /\ TokenPopped ~> (proc.pc = "stopped")

\* process() ended on the token with the request put before it worked
\* through and the request put after it still on the queue
C15_Witness ==
    /\ proc.pc = "stopped"
    /\ TokenPopped
    /\ samples > 0
    /\ queue # <<>>
    /\ ~ev.processing

\* C16: assigning the queue of the processor while it is processing
\* raises an error and leaves the queue as it is; when it is not processing
\* the assignment of a queue takes effect and raises nothing; a value that
\* is no queue raises ValueError in every state and leaves the queue as it
\* is.
C16_QueueSetter ==
    [][Len(ret'.of) > Len(ret.of)
          => LET outcome == ret'.of[Len(ret'.of)]
                 raised  == outcome[1]
                 value   == outcome[2]
             IN  IF value \notin ValidQueues
                 THEN raised = "ValueError" /\ queue_id' = queue_id
                 ELSE IF ev.processing
                 THEN raised = "Exception" /\ queue_id' = queue_id
                 ELSE raised = "none" /\ queue_id' = value
      ]_vars

\* the assignment of q1 raised while processing and took effect after the
\* processor had shut down
C16_Witness ==
    /\ ret.of = << <<"Exception", "q1">>, <<"none", "q1">> >>
    /\ queue_id = "q1"
    /\ proc.pc = "stopped"
    /\ ev.shutdown

\* C17: start() starts no collector before the processor has signalled that
\* it is processing, and when that signal does not arrive start() aborts
\* with no collector started; a collector is started only after the one
\* before it in the list signalled that it queues requests, and the server
\* is running only after every collector was started and signalled.
C17_StartOrder ==
    /\ \A c \in Collectors :
          collector[c].thread # "none"
             => processor[server.queue_processor].signalled
    /\ starter.pc \in {"abort", "raised"}
          => \A c \in Collectors : collector[c].thread = "none"
    /\ \A k \in 2 .. Len(starter.list) :
          collector[starter.list[k]].thread # "none"
             => collector[starter.list[k - 1]].signalled
    /\ server.running
          => \A k \in 1 .. Len(server.collectors) :
                /\ collector[server.collectors[k]].thread # "none"
                /\ collector[server.collectors[k]].signalled

\* the server is running with both collectors queuing requests and the
\* processor processing
C17_Witness ==
    /\ server.running
    /\ starter.pc = "pause"
    /\ \A k \in 1 .. Len(server.collectors) :
          collector[server.collectors[k]].queuing
    /\ processor[server.queue_processor].processing

\* C18: a processor is not told to stop while the thread of a collector
\* that the server started has not shut down, and the queue is not closed
\* while a processor is processing.
C18_CollectorsThenProcessorThenQueue ==
    /\ [][\A p \in Processors :
            processor'[p].should_stop /\ ~processor[p].should_stop
               => \A c \in Collectors : collector[c].thread # "started"
         ]_vars
    /\ [](server.queue_none
            => \A p \in Processors : ~processor[p].processing)

\* C19: after shutdown() is called on a running server the server stops
\* for good: it is not running, start() has ended, no collector queues
\* requests, no processor is processing and the shutdown event is set, so
\* wait_until_shutdown() returns.
C19_ServerEventuallyStops ==
    (stopper.pc # "idle")
       ~> [](/\ ~server.running
             /\ server.shutdown
             /\ starter.pc \in {"returned", "raised"}
             /\ \A c \in Collectors : ~collector[c].queuing
             /\ \A p \in Processors : ~processor[p].processing)

\* C20: after reload() with a new processor and new collectors configured,
\* start() does not return; the collectors and the processor that were
\* running are shut down and the configured ones run, with the server
\* running again; and the reload event is set only while the configured
\* collectors have been started and queue requests.
Reloaded ==
    /\ server.running
    /\ server.reload
    /\ processor[server.queue_processor].processing
    /\ \A c \in Collectors :
          collector[c].queuing
             <=> \E k \in 1 .. Len(server.collectors) : server.collectors[k] = c
    /\ \A p \in Processors :
          processor[p].processing <=> p = server.queue_processor

C20_ReloadRestartsServer ==
    /\ [](starter.pc # "returned")
    /\ [](server.reload
            => \A k \in 1 .. Len(server.collectors) :
                  collector[server.collectors[k]].signalled)
    /\ [](server.reloads > 0 => <>Reloaded)


\* C21: when shutdown(timeout) ends with the shutdown-timeout error, the
\* server has nevertheless been marked stopped: pause is signalled, the queue
\* is released and the shutdown event is set.
C21_TimeoutStillStops ==
    [](stopper.pc = "timed_out" =>
          server.pause /\ server.queue_none /\ server.shutdown)

\* C30: the budget of shutdown(timeout) is cumulative: the timeout error of
\* the collector shutdown is raised only when the time elapsed since
\* shutdown began exceeds the timeout given by the caller.
C30_CumulativeBudget ==
    [][(stopper.pc = "timed_wait_collector" /\ stopper'.pc = "timed_out")
          => stopper'.clock - stopper'.start_time > stopper'.timeout]_vars


\* C22: when a collector fails to bind its socket, start() fails: it ends
\* with the error, having shut down the processor, instead of waiting for
\* that collector to queue requests.
C22_BindFailureAbortsStart ==
    (\E c \in Collectors : collector[c].thread = "bind_error")
       ~> (starter.pc = "raised" /\ ~server.running)


\* C23: a call of start() creates the queue when the server has none, as
\* after a completed shutdown(): its step that shares the queue leaves the
\* server with a queue, and start() goes on to start the processor.
C23_StartCreatesQueue ==
    [][(/\ starter.pc = "top" /\ ~starter.reloading
        /\ starter'.pc # "top" /\ server.queue_none)
          => (~server'.queue_none /\ starter'.pc = "start_processor")]_vars


\* C24: when the worker of a connection has ended, the requests it put on
\* the queue, concatenated in order, are the bytes it received; these are the
\* whole stream unless the collector was shut down; and a text that ends in
\* an incomplete line has that line as its last request.
C24_TcpFraming ==
    [](conn.pc \in {"closed", "raised"} =>
          /\ conn.stop \/ conn.rest = <<>>
          /\ encode(Concat(conn.requests)) = conn.got
          /\ LET lines == splitlines(Concat(conn.requests))
             IN  (lines # <<>> /\ ~endswith_newline(lines[Len(lines)]))
                    => conn.requests[Len(conn.requests)] = lines[Len(lines)])


\* C25: after shutdown() the loop of the collector starts no further
\* receive; a collector whose socket is bound then ends with
\* is_queuing_requests() false, the socket closed and the shutdown event
\* set, so that wait_until_shutdown() returns; and the collector is queuing
\* requests only while its socket is bound.
C25_CollectorShutdown ==
    /\ [][(sock.stop_queuing_requests /\ sock'.pc = "recv")
             => sock.pc = "recv"]_vars
    /\ (sock.caller = "done" /\ sock.socket)
          ~> [](/\ sock.pc = "ended"
                /\ ~sock.queuing_requests
                /\ ~sock.socket
                /\ sock.shutdown)
    /\ [](sock.queuing_requests => sock.socket)

C25_Witness ==
    /\ sock.caller = "done"
    /\ sock.requests # <<>>
    /\ sock.pc = "ended"
    /\ ~sock.queuing_requests
    /\ ~sock.socket
    /\ sock.shutdown

\* C26: an error other than the timeout in the receive loop (a socket
\* error, a datagram that is not UTF-8) does not end the loop: the collector
\* is still queuing requests and goes on to the next receive.
C26_ErrorsDoNotStopCollector ==
    [][(sock.pc = "recv" /\ sock'.pc # "recv")
          => (sock'.pc = "loop" /\ sock'.queuing_requests)]_vars


\* The tasks of the do() calls that have returned, by position.
Submitted == DOMAIN pool.returned

AtMostOnce == \A id \in DOMAIN pool.executed : pool.executed[id] <= 1

DistinctTaskIds ==
    \A i, j \in Submitted :
       pool.returned[i][1] = pool.returned[j][1] => i = j

ResultsAfterWait ==
    pool.waiter.pc = "returned" =>
       \A i \in Submitted :
          pool.returned[i][1] \in pool.waiter.ids =>
             /\ pool.executed[pool.returned[i][1]] = 1
             /\ get_result(pool, pool.returned[i][1])
                   = func(pool.returned[i][2])

Expandable(p) ==
    /\ p.cls = "ExpandableThreadPool"
    /\ p.workers_limit > 0
    /\ p.workers_limit >= p.size

WorkersCapped ==
    Expandable(pool) =>
       /\ pool.max_workers_count <= pool.workers_limit
       /\ Len(pool.threads) <= pool.workers_limit

\* A do() call ends while the queue is longer than the threshold allows and
\* the pool is not stopped.
PutExceedsThreshold ==
    /\ \E c \in Callers : pool.callers[c].pc = "handle"
                            /\ pool'.callers[c].pc = "idle"
    /\ can_spawn_without_limit(pool)
    /\ ~pool.stop_event

\* C28, as stated: with 0 < Wmax and Wmax >= size the workers never exceed
\* Wmax, and when a task is put while the queue is longer than the threshold
\* a temporary worker has been spawned.
C28_CappedAndSpawns ==
    /\ [](WorkersCapped)
    /\ [][(Expandable(pool) /\ PutExceedsThreshold)
             => pool'.max_workers_count > pool.size]_vars

\* C28, amended: with 0 < Wmax and Wmax >= size the workers never exceed
\* Wmax; when Wmax > size and a task is put while the queue is longer than
\* the threshold, a temporary worker has been spawned; and a put spawns one
\* exactly when, besides, fewer than Wmax threads were created so far.
C28_CappedSpawnsBelowLimit ==
    /\ [](WorkersCapped)
    /\ [][(Expandable(pool) /\ PutExceedsThreshold)
             => /\ pool.workers_limit > pool.size
                   => pool'.max_workers_count > pool.size
                /\ pool'.max_workers_count = pool.max_workers_count + 1
                      <=> Len(pool.threads) < pool.workers_limit]_vars

C28_Witness ==
    /\ Expandable(pool)
    /\ pool.workers_limit > pool.size
    /\ pool.max_workers_count = pool.workers_limit
    /\ Len(pool.returned) = MaxTasks
    /\ Len(pool.queue) > 0


\* The port an address stands for: the one given, or the default.
PortOf(address) ==
    IF Len(address) > 1 /\ address[2] # "" THEN int(address[2])
    ELSE DEFAULT_PORT

UniquePortsInRange(address_tuples) ==
    /\ \A i \in DOMAIN address_tuples :
          PortOf(address_tuples[i]) \in 1 .. 65535
    /\ \A i, j \in DOMAIN address_tuples :
          PortOf(address_tuples[i]) = PortOf(address_tuples[j]) => i = j

\* C29: get_addresses_with_unique_ports returns the addresses when the
\* ports, the default 8125 of an address without port included, are
\* pairwise distinct and in 1..65535, and raises ValueError for every other
\* list, wherever the offending address stands.
C29_UniquePorts ==
    [](addr.pc = "called" =>
          IF UniquePortsInRange(addr.addresses)
          THEN /\ addr.result.raised = ""
               /\ addr.result.value =
                     [i \in DOMAIN addr.addresses |->
                        <<addr.addresses[i][1], PortOf(addr.addresses[i])>>]
          ELSE addr.result.raised = "ValueError")


\* A line in the sense of the processor, which splits requests at the line
\* feed: the request is empty or ends with a line feed.
WholeLines(request) == request = <<>> \/ endswith_newline(request)

\* C31: the worker of a connection puts exactly one request on the queue
\* for each chunk it received, and every request before the final
\* incomplete line is made of whole lines ending in a line feed, so that no
\* line is spread over two requests.
C31_OneRequestOfWholeLinesPerChunk ==
    [](conn.pc \in {"recv", "closed"} =>
          /\ Len(conn.requests)
                = conn.chunks + (IF conn.flushed THEN 1 ELSE 0)
          /\ \A i \in 1 .. conn.chunks : WholeLines(conn.requests[i]))


\* The workers of the pool that are alive: their thread has not ended.
alive_workers(p) ==
    {w \in DOMAIN p.threads : p.threads[w].pc \notin {"ended", "died"}}

\* The queue is longer than the threshold times the size and fewer than
\* workers_limit workers are alive (or there is no limit).
SpawnCondition(p) ==
    /\ Len(p.queue) * spawn_worker_threshold[2]
          > spawn_worker_threshold[1] * p.size
    /\ p.workers_limit = 0 \/ Cardinality(alive_workers(p)) < p.workers_limit

\* C32: a do() of a running expandable pool that has put its task starts
\* exactly one temporary worker when the queue is longer than the threshold
\* times the size and fewer than workers_limit workers are alive (or the
\* limit is 0), and none otherwise; a worker that finds the queue empty ends
\* when it is temporary and goes round its loop when it is permanent.
C32_SpawnsOneWhenBelowLimit ==
    [][/\ \A c \in Callers :
             (/\ pool.callers[c].pc = "handle"
              /\ pool'.callers[c].pc = "idle"
              /\ pool.cls = "ExpandableThreadPool"
              /\ ~pool.stop_event)
                => pool'.threads =
                      IF SpawnCondition(pool)
                      THEN Append(pool.threads, TemporaryWorkerThread)
                      ELSE pool.threads
       /\ \A w \in DOMAIN pool.threads :
             (/\ pool.threads[w].pc = "get"
              /\ pool.queue = <<>>
              /\ w \in DOMAIN pool'.threads
              /\ pool'.threads[w] # pool.threads[w])
                => pool'.threads[w].pc =
                      IF pool.threads[w].kind = "TemporaryWorkerThread"
                      THEN "ended" ELSE "check"]_vars


\* The connection of task id is waiting in the queue of the pool.
Waiting(id) == \E i \in DOMAIN pool.queue : pool.queue[i][1] = id

\* workers_limit workers are alive and every one of them is running a task.
LimitReachedAllBusy(p) ==
    /\ p.workers_limit # 0
    /\ Cardinality(alive_workers(p)) >= p.workers_limit
    /\ \A w \in alive_workers(p) : p.threads[w].pc = "run"

\* C33: a connection given to the pool of a collector that is not stopped
\* does not stay in the queue, also when the connections being served never
\* end, unless workers_limit workers are alive and all of them are busy.
C33_ConnectionNeverLeftWaiting ==
    \A id \in 0 .. MaxTasks - 1 :
       (Waiting(id) /\ ~pool.stop_event)
          ~> (\/ ~Waiting(id)
              \/ pool.stop_event
              \/ LimitReachedAllBusy(pool))


\* C39: a worker that has run a task, also a task that raised, goes on
\* with its loop and the task counts as done, so that the pool keeps its
\* workers and wait_until_done() can return.
C39_RaisingTaskKeepsWorker ==
    [][\A w \in DOMAIN pool.threads :
          (/\ pool.threads[w].pc = "run"
           /\ w \in DOMAIN pool'.threads
           /\ pool'.threads[w].pc # "run")
             => /\ pool'.threads[w].pc = "check"
                /\ pool'.unfinished_tasks = pool.unfinished_tasks - 1]_vars


\* C36: with reload() called any number of times and shutdown() never,
\* start() never ends and the server is running again and again.
C36_ReloadNeverTerminates ==
    /\ [](starter.pc \notin {"returned", "raised"})
    /\ [](server.reloads > 0 => <>server.running)

\* shutdown() is being carried out while a reload that was asked for has not
\* been completed by start().
ShutdownDuringReload ==
    /\ stopper.pc \notin {"idle", "done", "raised"}
    /\ server.should_reload \/ (starter.reloading /\ ~server.reload)

\* The server has stopped and start() has returned.
Stopped ==
    /\ starter.pc = "returned"
    /\ ~server.running
    /\ \A c \in Collectors : ~collector[c].queuing
    /\ \A p \in Processors : ~processor[p].processing

\* C37: when shutdown() is called while a reload is being carried out the
\* server stops for good: start() returns without an exception and no
\* collector or processor is running; and once shutdown() has returned no
\* collector or processor thread is started.
C37_ShutdownDuringReloadStops ==
    /\ ShutdownDuringReload ~> []Stopped
    /\ [][stopper.pc = "done"
            => /\ \A c \in Collectors :
                     collector[c].thread = "none"
                        => collector'[c].thread = "none"
               /\ \A p \in Processors :
                     processor[p].thread = "none"
                        => processor'[p].thread = "none"]_vars


C35_FlushEveryInterval ==
    /\ [][(proc.pc = "check" /\ proc'.pc # "check")
            => (proc'.pc = "flush"
                  <=> now' - last_flush_timestamp >= flush_interval)]_vars
    /\ [][last_flush_timestamp' # last_flush_timestamp
            => \/ last_flush_timestamp = -1 /\ last_flush_timestamp' = now'
               \/ fl.pc = "put" /\ last_flush_timestamp' = fl.now]_vars
    /\ [][(flush_lock # "proc" /\ flush_lock' = "proc"
           /\ proc.flushed_at # -1)
            => fl'.now - proc.flushed_at >= flush_interval]_vars
    /\ [](proc.pc = "flush" => <>(proc.pc # "flush"))

\* The loop of process() flushes for the second time, with an empty queue
\* and nothing popped in the iteration.
C35_Witness ==
    /\ flush_lock = "proc"
    /\ proc.flushed_at # -1
    /\ ~proc.has_data
    /\ queue = <<>>
    /\ enqueued = 0


\* C38: a shutdown() called while the processor is not processing is
\* forgotten: process() enters its loop with the stop flag clear and leaves
\* it only after the flag was set again or the stop token was popped; and
\* when process() returns the stop flags are clear, the flush threads and
\* their queues are released and the shutdown event is set.
C38_ShutdownBeforeProcessIsForgotten ==
    /\ [][(proc.pc \in {"idle", "stopped"} /\ proc'.pc = "loop")
            => ~ev'.should_stop_processing]_vars
    /\ [][(proc.pc # "stopped" /\ proc'.pc = "stopped")
            => /\ ~ev'.should_stop_processing
               /\ ~ev'.should_stop_flushing
               /\ ~ev'.flush_threads_initialized
               /\ flush_queues' = {}
               /\ ev'.shutdown]_vars


\* C40: with max_retry = M >= 1 a send of a TCPClient ends, by returning or
\* by IOError, whatever fails: during one send at most M connections are
\* tried, a failed sendall below the maximum is followed by a new
\* connection, and the send does not go on for ever.
C40_SendTerminates ==
    /\ [](client.attempts <= client.max_retry)
    /\ [][(client.pc = "sendall" /\ client'.pc = "connect")
            => (~client'.sock
                /\ client.connection_tries < client.max_retry)]_vars
    /\ [](client.pc \in {"connection", "connect", "sendall"}
            => <>(client.pc \in {"sent", "raised"}))

\* A send gave up with IOError after a failed sendall and M = 2 failed or
\* broken connections.
C40_Witness ==
    /\ client.pc = "raised"
    /\ client.max_retry = 2
    /\ client.attempts = 2
    /\ client.sock

=============================================================================
